---- MODULE Spec2Model ----
(***************************************************************************)
(* Signature capture / offline outbox / sync engine of the signature       *)
(* manager (class SignatureManager).  The model follows the revision       *)
(* "FIXED-2026-02-15" (src/unnamed/part_000, lines 757-2002) and, where    *)
(* the older revision (src/app/web/frontend/signature-manager.js, lines    *)
(* 2-940) differs in the sync path, both are modelled and the variable     *)
(* revision says which one is running.  The assignment engine of the same *)
(* class (lines 1508-1958) is modelled together with the server calls it   *)
(* relies on, which follow the design of the engine.                       *)
(***************************************************************************)
EXTENDS Integers, Sequences, FiniteSets, TLC

(* ------------------------------ bounds -------------------------------- *)
MaxClock == 2     \* values Date.now() takes
MaxOutbox == 2    \* entries the outbox holds at most
MaxReq == 2       \* create / bulk sync requests issued in one behaviour
MaxLoads == 1     \* list-library requests in flight at once
MaxSub == 9       \* largest number of sub-points one move is resampled to
MaxPoints == 10   \* largest length of this.points
MaxTimers == 1    \* pending initialisation timers
MaxStore == 3     \* entries of the outbox when the store is driven alone
MaxSigs == 3      \* signatures of the server's library
MaxOps == 2       \* operations the user starts in one behaviour of the engine
MaxEng == 2       \* assign / auto-assign / delete requests in flight at once
MaxLists == 2     \* list-library requests of the engine in flight at once
MaxNow == 80      \* values performance.now() takes during the strokes
MaxAdds == 6      \* points given to the smoother when it is driven alone
MaxIds == 3       \* ids Math.random() can make
MaxInk == 2       \* strokes counted on the canvas; more count as MaxInk

(* ------------------------- program constants -------------------------- *)
MinPoints == 10   \* saveSignature: this.points.length < 10 is rejected
MinSub == 2       \* _strokeMove: n = Math.max(2, ...)

InitialWidth == 280   \* _strokeStart: lastW = 2.8, in hundredths of a pixel

(* --------------------------- input domains ---------------------------- *)
\* what the user types in the name field: a sequence of characters
NameInputs == { <<>>, <<" ">>, <<"a">>, <<" ", "a", " ">> }

\* a reply to a request: net = FALSE is a network error (fetch rejects);
\* otherwise ok is response.ok and body is what response.json() gives:
\* status 'success', another status, or a body that is not JSON.
Replies ==
    { [net |-> FALSE, ok |-> FALSE, body |-> "none"] } \cup
    { [net |-> TRUE, ok |-> o, body |-> b] :
        o \in BOOLEAN, b \in {"success", "error", "notjson"} }

Revisions == {"fixed", "legacy"}

\* this.members as loadMembers leaves it: the sorted roster
MemberList == << "A", "B" >>
Members == { MemberList[i] : i \in 1..Len(MemberList) }
NoMember == ""    \* this.currentMemberKey = null

\* the slot keys of the table: the keys resetAssignments clears, loadAllData
\* defaults and the scan for signatures used elsewhere reads
SlotList == << "toris_certifying_officer", "pg13_certifying_official",
               "pg13_verifying_official" >>
Slots == { SlotList[i] : i \in 1..Len(SlotList) }

\* the keys of the three boxes renderAssignments draws
RenderLocations == << "toris_certifying_officer", "pg13_certifying_official",
                      "pg13_member" >>

SigIds == 1..MaxSigs
Null == 0         \* signature_id null: the slot holds no signature

Undefined == 0 - 1    \* reading a key an object does not have

EmptySlots == [s \in Slots |-> Null]
EmptyTable == [m \in Members |-> EmptySlots]
NoSlots == [s \in {} |-> Null]          \* {} as this.assignments
NoTable == [m \in {} |-> EmptySlots]    \* {} as this.assignmentsByMember

VARIABLES
    revision,     \* which revision of the class is running
    online,       \* navigator.onLine
    clock,        \* Date.now()
    storage,      \* localStorage key 'local_signatures'
    reqs,         \* create / bulk sync requests, in the order issued
    loads,        \* list-library requests in flight (loadAllData)
    saved,        \* history: every record handed to saveToLocalStorage
    shown,        \* what the last step showed to the user through
                  \* showAlert or alert(); "" when it showed nothing
    modalOpen,    \* the create modal is shown
    initTimers,   \* pending 100 ms timers started by openCreateModal
    canvas,       \* this.canvas and this.ctx are set
    isDrawing,    \* this.isDrawing
    points,       \* this.points.length
    srvSigs,      \* server: the ids of the signature library
    srvTable,     \* server: the assignment table, member -> slot -> id
    currentMemberKey,     \* this.currentMemberKey
    signatures,           \* this.signatures (the ids)
    assignmentsByMember,  \* this.assignmentsByMember
    assignments,          \* this.assignments
    ereqs,        \* assign / auto-assign / delete requests in flight
    lists,        \* list-library requests of the engine in flight
    bulk,         \* the bulkAutoAssign run: its loop variables
    reset,        \* the resetAssignments run: its loop variables
    renderedKey,  \* this.currentMemberKey when renderAssignments last ran
    ops,          \* operations the user has started
    stroke,       \* this._stroke: raw, pts, lastT, lastW
    pointList,    \* this.points: the x of each point
    segs,         \* history: the curve segments rendered for the stroke
                  \* started last, in the order drawn
    lineWidth,    \* this.ctx.lineWidth as the smoother last set it
    captured,     \* the pointer id last given to setPointerCapture
    pointerEvents,    \* window.PointerEvent is defined
    now,          \* performance.now()
    lastEvent,    \* history: the kind of the last canvas event
    bound,        \* the sets of stroke listeners that are bound
    ink,          \* the strokes whose ink is on the canvas bitmap
    devStore,     \* localStorage key 'device_id'
    deviceId,     \* this.deviceId
    stamps        \* history: the device_id of every record saveSignature built

engineVars == << srvSigs, srvTable, currentMemberKey, signatures,
                 assignmentsByMember, assignments, ereqs, lists, bulk,
                 reset, renderedKey, ops >>

strokeVars == << stroke, pointList, segs, lineWidth, captured,
                 pointerEvents, now, lastEvent, bound, ink >>

deviceVars == << devStore, deviceId, stamps >>

vars == << revision, online, clock, storage, saved, reqs, loads, shown,
           modalOpen, initTimers, canvas, isDrawing, points, engineVars,
           strokeVars, deviceVars >>

uiVars == << modalOpen, initTimers, canvas, isDrawing, points >>

(* ------------------------------ helpers ------------------------------- *)
\* String.prototype.trim on a sequence of characters
RECURSIVE TrimLeft(_)
TrimLeft(s) ==
    IF s # <<>> /\ Head(s) = " " THEN TrimLeft(Tail(s)) ELSE s

RECURSIVE TrimRight(_)
TrimRight(s) ==
    IF s # <<>> /\ s[Len(s)] = " "
    THEN TrimRight(SubSeq(s, 1, Len(s) - 1)) ELSE s

Trim(s) == TrimRight(TrimLeft(s))

\* JSON.parse(localStorage.getItem('local_signatures') || '[]')
loadLocalSignatures(st) == IF st.present THEN st.items ELSE <<>>

\* saveToLocalStorage with unshift in place of push
saveToLocalStorage_Unshift(st, sig) ==
    [present |-> TRUE, items |-> << sig >> \o loadLocalSignatures(st)]

\* saveToLocalStorage: parse, push, setItem
saveToLocalStorage(st, sig) ==
    [present |-> TRUE, items |-> Append(loadLocalSignatures(st), sig)]

\* removeFromLocalStorage written with splice(findIndex(...), 1): the first
\* match is dropped and, findIndex giving -1 for no match, splice(-1, 1) drops
\* the last entry
removeFromLocalStorage_Splice(st, lid) ==
    LET items == loadLocalSignatures(st)
        hits == { i \in 1..Len(items) : items[i].local_id = lid }
        at == IF hits = {} THEN Len(items)
              ELSE CHOOSE i \in hits : \A j \in hits : i <= j
    IN [present |-> TRUE,
        items |-> SubSeq(items, 1, at - 1) \o SubSeq(items, at + 1, Len(items))]

\* removeFromLocalStorage: parse, filter by local_id, setItem
removeFromLocalStorage(st, lid) ==
    [present |-> TRUE,
     items |-> SelectSeq(loadLocalSignatures(st),
                         LAMBDA s : s.local_id # lid)]

\* localStorage.setItem('local_signatures', '[]')
clearLocalStorage(st) == [present |-> TRUE, items |-> <<>>]

\* outcome of uploadSignature for a reply: TRUE iff it removes and returns true
uploadResult(rev, r) ==
    IF ~r.net THEN FALSE                          \* fetch rejects: catch
    ELSE IF rev = "fixed" /\ ~r.ok THEN FALSE     \* if (!response.ok)
    ELSE IF r.body = "notjson" THEN FALSE         \* response.json() throws
    ELSE r.body = "success"

\* outcome of the reply handling of syncSignatures
syncResult(rev, r) ==
    IF ~r.net THEN "Sync failed"
    ELSE IF rev = "fixed" /\ ~r.ok THEN "silent"  \* return false, no alert
    ELSE IF r.body = "notjson" THEN "Sync failed"
    ELSE IF r.body = "success" THEN "Synced"
    ELSE "Sync failed: message"

\* the server has accepted a request: 2xx reply with status 'success'
Accepted(r) == r.net /\ r.ok /\ r.body = "success"

Outbox == loadLocalSignatures(storage)
Range(s) == { s[i] : i \in 1..Len(s) }
InFlight == { i \in 1..Len(reqs) : reqs[i].state = "inflight" }

(* ------------------------------- Init --------------------------------- *)
\* new SignatureManager() on a device whose storage holds no outbox yet:
\* the constructor runs init(), whose loadAllData() issues a list request.
\* no bulk run and no reset run
NoBulk == [active |-> FALSE, idx |-> 0, successCount |-> 0,
           failures |-> <<>>, ended |-> "no"]
NoReset == [active |-> FALSE, idx |-> 0, member |-> NoMember, ended |-> "no"]

\* The library and the assignment table are left out of the specifications
\* of the outbox: no property of the outbox reads them, and nothing the
\* outbox does depends on them.
EngineOff ==
    /\ srvSigs = {}
    /\ srvTable = EmptyTable
    /\ currentMemberKey = NoMember
    /\ signatures = {}
    /\ assignmentsByMember = NoTable
    /\ assignments = NoSlots
    /\ ereqs = <<>>
    /\ lists = <<>>
    /\ bulk = NoBulk
    /\ reset = NoReset
    /\ renderedKey = NoMember
    /\ ops = 0

\* this._stroke as setupCanvas and _strokeEnd leave it: no raw point, no
\* smoothed point
NoStroke == [raw |-> <<>>, pts |-> <<>>, lastT |-> 0, lastW |-> InitialWidth]

NoPointer == 0    \* no pointer has been captured

\* The smoother is left out of the specifications of the outbox and of the
\* engine, which read of a stroke only isDrawing and the number of points.
StrokeOff ==
    /\ stroke = NoStroke
    /\ pointList = <<>>
    /\ segs = <<>>
    /\ lineWidth = 0
    /\ captured = NoPointer
    /\ pointerEvents = TRUE
    /\ now = 0
    /\ lastEvent = "none"
    /\ bound = 0
    /\ ink = 0

NoDeviceId == 0   \* localStorage.getItem('device_id') gives null

\* The device id is left out of them as well: it is written once by the
\* constructor and only copied afterwards.
DeviceOff ==
    /\ devStore = NoDeviceId
    /\ deviceId = NoDeviceId
    /\ stamps = {}

Init ==
    /\ EngineOff
    /\ StrokeOff
    /\ DeviceOff
    /\ revision \in Revisions
    /\ online \in BOOLEAN
    /\ clock = 1
    /\ storage = [present |-> FALSE, items |-> <<>>]
    /\ saved = {}
    /\ reqs = <<>>
    /\ loads = << [then |-> "none"] >>
    /\ shown = ""
    /\ modalOpen = FALSE
    /\ initTimers = 0
    /\ canvas = FALSE
    /\ isDrawing = FALSE
    /\ points = 0

(* --------------------------- user interface --------------------------- *)
\* showAlert(message, type) and alert(message): the step shows the message
showAlert(msg) == shown' = msg
alert(msg) == shown' = msg
showNothing == shown' = ""

\* closeCreateModal: hide the modal, unbind, drop the canvas and the points
closeCreateModal ==
    /\ modalOpen' = FALSE
    /\ canvas' = FALSE
    /\ points' = 0
    /\ isDrawing' = FALSE
    /\ UNCHANGED initTimers

\* loadAllData up to its first await: the list request is issued; then
\* names what the caller does once loadAllData has returned
loadAllData(then) ==
    /\ Len(loads) < MaxLoads
    /\ loads' = Append(loads, [then |-> then])

OpenCreateModal ==
    /\ initTimers < MaxTimers
    /\ modalOpen' = TRUE
    /\ initTimers' = initTimers + 1
    /\ showNothing
    /\ UNCHANGED << engineVars, strokeVars, deviceVars, revision, online, clock, storage, saved, reqs, loads,
                    canvas, isDrawing, points >>

\* the timer callback of openCreateModal: canvas lookup, setupCanvas,
\* clearCanvas
InitTimerFire ==
    /\ initTimers > 0
    /\ initTimers' = initTimers - 1
    /\ canvas' = TRUE
    /\ points' = 0
    /\ isDrawing' = FALSE
    /\ showNothing
    /\ UNCHANGED << engineVars, strokeVars, deviceVars, revision, online, clock, storage, saved, reqs, loads, modalOpen >>

CloseCreateModal ==
    /\ modalOpen
    /\ closeCreateModal
    /\ showNothing
    /\ UNCHANGED << engineVars, strokeVars, deviceVars, revision, online, clock, storage, saved, reqs, loads >>

\* clearCanvas (the Clear button of the modal)
ClearCanvas ==
    /\ modalOpen
    /\ canvas
    /\ points' = 0
    /\ isDrawing' = FALSE
    /\ showNothing
    /\ UNCHANGED << engineVars, strokeVars, deviceVars, revision, online, clock, storage, saved, reqs, loads,
                    modalOpen, initTimers, canvas >>

\* _strokeStart: needs the context; the point list becomes the start point
StrokeStart ==
    /\ modalOpen
    /\ canvas
    /\ isDrawing' = TRUE
    /\ points' = 1
    /\ showNothing
    /\ UNCHANGED << engineVars, strokeVars, deviceVars, revision, online, clock, storage, saved, reqs, loads,
                    modalOpen, initTimers, canvas >>

\* _strokeMove of an accepted move resampled to n sub-points
StrokeMove(n) ==
    /\ isDrawing
    /\ canvas
    /\ n >= MinSub
    /\ points + n <= MaxPoints
    /\ points' = points + n
    /\ showNothing
    /\ UNCHANGED << engineVars, strokeVars, deviceVars, revision, online, clock, storage, saved, reqs, loads,
                    modalOpen, initTimers, canvas, isDrawing >>

\* _strokeEnd through the pointerup / pointercancel listeners
StrokeEnd ==
    /\ isDrawing
    /\ isDrawing' = FALSE
    /\ showNothing
    /\ UNCHANGED << engineVars, strokeVars, deviceVars, revision, online, clock, storage, saved, reqs, loads,
                    modalOpen, initTimers, canvas, points >>

\* Date.now() advances
Tick ==
    /\ clock < MaxClock
    /\ clock' = clock + 1
    /\ showNothing
    /\ UNCHANGED << engineVars, strokeVars, deviceVars, revision, online, storage, saved, reqs, loads,
                    modalOpen, initTimers, canvas, isDrawing, points >>

(* ------------------------------- save --------------------------------- *)
\* the record saveSignature builds (the fields that identify it)
signatureData(name) == [local_id |-> clock, name |-> name]

\* saveSignature with the point threshold off by one
saveSignature_ShortThreshold(input) ==
    LET name == Trim(input) IN
    IF name = <<>>
    THEN /\ alert("Please enter a signature name")
         /\ UNCHANGED << storage, saved, reqs, uiVars >>
    ELSE IF points < MinPoints - 1
    THEN /\ alert("Please draw your signature")
         /\ UNCHANGED << storage, saved, reqs, uiVars >>
    ELSE /\ canvas
         /\ Len(Outbox) < MaxOutbox
         /\ storage' = saveToLocalStorage(storage, signatureData(name))
         /\ saved' = saved \cup { signatureData(name) }
         /\ IF online
            THEN /\ Len(reqs) < MaxReq
                 /\ reqs' = Append(reqs, [kind |-> "create",
                                          body |-> << signatureData(name) >>,
                                          state |-> "inflight"])
                 /\ showNothing
                 /\ UNCHANGED uiVars
            ELSE /\ showAlert("Signature saved to your phone")
                 /\ closeCreateModal
                 /\ UNCHANGED reqs

\* saveSignature(e) up to its first await
saveSignature(input) ==
    LET name == Trim(input) IN
    IF name = <<>>
    THEN /\ alert("Please enter a signature name")
         /\ UNCHANGED << storage, saved, reqs, uiVars >>
    ELSE IF points < MinPoints
    THEN /\ alert("Please draw your signature")
         /\ UNCHANGED << storage, saved, reqs, uiVars >>
    ELSE /\ canvas                  \* this.canvas.toDataURL
         /\ Len(Outbox) < MaxOutbox
         /\ storage' = saveToLocalStorage(storage, signatureData(name))
         /\ saved' = saved \cup { signatureData(name) }
         /\ IF online
            THEN /\ Len(reqs) < MaxReq
                 /\ reqs' = Append(reqs, [kind |-> "create",
                                          body |-> << signatureData(name) >>,
                                          state |-> "inflight"])
                 /\ showNothing
                 /\ UNCHANGED uiVars
            ELSE /\ showAlert("Signature saved to your phone")
                 /\ closeCreateModal
                 /\ UNCHANGED reqs

\* the submit event of the form in the create modal
SaveSignature(input) ==
    /\ modalOpen
    /\ saveSignature(input)
    /\ UNCHANGED << engineVars, strokeVars, deviceVars, revision, online, clock, loads >>

\* the rest of uploadSignature and of saveSignature once the create request
\* has settled
CreateReply(i, r) ==
    /\ i \in InFlight
    /\ reqs[i].kind = "create"
    /\ reqs' = [reqs EXCEPT ![i].state =
                    IF Accepted(r) THEN "success" ELSE "failed"]
    /\ IF uploadResult(revision, r)
       THEN /\ storage' = removeFromLocalStorage(storage,
                                                 reqs[i].body[1].local_id)
            /\ closeCreateModal
            /\ loadAllData("saved")
            /\ showNothing
       ELSE /\ showAlert("Signature saved locally")
            /\ closeCreateModal
            /\ UNCHANGED << storage, loads >>
    /\ UNCHANGED << engineVars, strokeVars, deviceVars, revision, online, clock, saved >>

(* ------------------------------- sync --------------------------------- *)
\* syncSignatures without the offline check: it sends the request anyway
syncSignatures_NoOfflineCheck(onLine, rq) ==
    LET localSignatures == loadLocalSignatures(storage) IN
    IF Len(localSignatures) = 0
    THEN /\ showAlert("No signatures to sync")
         /\ reqs' = rq
    ELSE /\ Len(reqs) < MaxReq
         /\ reqs' = Append(rq, [kind |-> "sync",
                                body |-> localSignatures,
                                state |-> "inflight"])
         /\ showNothing

\* syncSignatures without the empty-outbox check: an empty batch is sent
syncSignatures_NoEmptyCheck(onLine, rq) ==
    LET localSignatures == loadLocalSignatures(storage) IN
    IF ~onLine
    THEN /\ showAlert("Cannot sync while offline")
         /\ reqs' = rq
    ELSE /\ Len(reqs) < MaxReq
         /\ reqs' = Append(rq, [kind |-> "sync",
                                body |-> localSignatures,
                                state |-> "inflight"])
         /\ showNothing

\* syncSignatures() up to its first await; onLine is navigator.onLine and
\* rq the requests issued so far
syncSignatures(onLine, rq) ==
    LET localSignatures == loadLocalSignatures(storage) IN
    IF Len(localSignatures) = 0
    THEN /\ showAlert("No signatures to sync")
         /\ reqs' = rq
    ELSE IF ~onLine
    THEN /\ showAlert("Cannot sync while offline")
         /\ reqs' = rq
    ELSE /\ Len(reqs) < MaxReq
         /\ reqs' = Append(rq, [kind |-> "sync",
                                body |-> localSignatures,
                                state |-> "inflight"])
         /\ showNothing

\* the Sync button
ManualSync ==
    /\ syncSignatures(online, reqs)
    /\ UNCHANGED << engineVars, strokeVars, deviceVars, revision, online, clock, storage, saved, loads, uiVars >>

\* the rest of syncSignatures once the bulk request has settled
SyncReply(i, r) ==
    /\ i \in InFlight
    /\ reqs[i].kind = "sync"
    /\ reqs' = [reqs EXCEPT ![i].state =
                    IF Accepted(r) THEN "success" ELSE "failed"]
    /\ LET res == syncResult(revision, r) IN
       IF res = "Synced"
       THEN /\ storage' = clearLocalStorage(storage)
            /\ showAlert("Synced")
            /\ loadAllData("none")
       ELSE /\ IF res = "silent" THEN showNothing ELSE showAlert(res)
            /\ UNCHANGED << storage, loads >>
    /\ UNCHANGED << engineVars, strokeVars, deviceVars, revision, online, clock, saved, uiVars >>

\* the rest of loadAllData once the list request has settled, and then the
\* rest of its caller
LoadReply(i, r) ==
    /\ i \in 1..Len(loads)
    /\ loads' = SubSeq(loads, 1, i - 1) \o SubSeq(loads, i + 1, Len(loads))
    /\ LET failed == IF revision = "fixed" THEN ~Accepted(r) ELSE FALSE IN
       IF loads[i].then = "saved"
       THEN showAlert("Signature saved successfully")
       ELSE IF failed THEN showAlert("Failed to load signatures")
       ELSE showNothing
    /\ UNCHANGED << engineVars, strokeVars, deviceVars, revision, online, clock, storage, saved, reqs, uiVars >>

(* --------------------------- connectivity ----------------------------- *)
\* handleOnline that flushes only an outbox of two or more entries
handleOnline_SkipsSingle(onLine, rq) ==
    LET localSigs == loadLocalSignatures(storage) IN
    IF Len(localSigs) > 1
    THEN syncSignatures(onLine, rq)
    ELSE /\ showNothing
         /\ reqs' = rq

\* handleOnline: the indicator, then a sync when the outbox is not empty
handleOnline(onLine, rq) ==
    LET localSigs == loadLocalSignatures(storage) IN
    IF Len(localSigs) > 0
    THEN syncSignatures(onLine, rq)
    ELSE /\ showNothing
         /\ reqs' = rq

\* handleOffline only changes the indicator
handleOffline(rq) ==
    /\ showNothing
    /\ reqs' = rq

\* checkOnlineStatus, called by init
checkOnlineStatus(rq) ==
    IF online THEN handleOnline(online, rq) ELSE handleOffline(rq)

\* the 'online' event
GoOnline ==
    /\ ~online
    /\ online' = TRUE
    /\ handleOnline(TRUE, reqs)
    /\ UNCHANGED << engineVars, strokeVars, deviceVars, revision, clock, storage, saved, loads, uiVars >>

\* the 'offline' event
GoOffline ==
    /\ online
    /\ online' = FALSE
    /\ handleOffline(reqs)
    /\ UNCHANGED << engineVars, strokeVars, deviceVars, revision, clock, storage, saved, loads, uiVars >>

\* the requests after the page has gone: no reply to a request in flight is
\* handled any more
Abandoned(rq) ==
    [j \in 1..Len(rq) |->
        IF rq[j].state = "inflight" THEN [rq[j] EXCEPT !.state = "dropped"]
        ELSE rq[j]]

\* the page is reloaded: every in-memory field and every pending callback is
\* lost, localStorage stays, and the constructor runs init() again:
\* checkOnlineStatus(), then loadAllData()
Restart ==
    /\ checkOnlineStatus(Abandoned(reqs))
    /\ loads' = << [then |-> "none"] >>
    /\ modalOpen' = FALSE
    /\ initTimers' = 0
    /\ canvas' = FALSE
    /\ isDrawing' = FALSE
    /\ points' = 0
    /\ UNCHANGED << engineVars, strokeVars, deviceVars, revision, online, clock, storage, saved >>

SubCounts == {MaxSub - 1, MaxSub}

Next ==
    \/ OpenCreateModal
    \/ InitTimerFire
    \/ CloseCreateModal
    \/ ClearCanvas
    \/ StrokeStart
    \/ \E n \in SubCounts : StrokeMove(n)
    \/ StrokeEnd
    \/ Tick
    \/ \E input \in NameInputs : SaveSignature(input)
    \/ \E i \in 1..MaxReq, r \in Replies : CreateReply(i, r)
    \/ ManualSync
    \/ \E i \in 1..MaxReq, r \in Replies : SyncReply(i, r)
    \/ \E i \in 1..MaxLoads, r \in Replies : LoadReply(i, r)
    \/ GoOnline
    \/ GoOffline
    \/ Restart

Spec == Init /\ [][Next]_vars

\* the revision FIXED-2026-02-15 alone, and the older revision alone
InitFixed == Init /\ revision = "fixed"
InitLegacy == Init /\ revision = "legacy"
SpecFixed == InitFixed /\ [][Next]_vars
SpecLegacy == InitLegacy /\ [][Next]_vars

(* ------------------------- the store alone ---------------------------- *)
\* The three storage functions driven directly: any name, any local_id.
StoreNames == { <<"a">>, <<"b">> }
StoreIds == 1..MaxClock

\* saveToLocalStorage(signatureData) as saveSignature calls it
StoreEnqueue(name) ==
    /\ Len(Outbox) < MaxStore
    /\ storage' = saveToLocalStorage(storage, signatureData(name))
    /\ saved' = saved \cup { signatureData(name) }
    /\ showNothing
    /\ UNCHANGED << engineVars, strokeVars, deviceVars, revision, online, clock, reqs, loads, uiVars >>

\* removeFromLocalStorage(localId) as uploadSignature calls it
StoreRemove(lid) ==
    /\ storage' = removeFromLocalStorage(storage, lid)
    /\ showNothing
    /\ UNCHANGED << engineVars, strokeVars, deviceVars, revision, online, clock, saved, reqs, loads, uiVars >>

InitStore == Init /\ revision = "fixed" /\ online

NextStore ==
    \/ Tick
    \/ \E name \in StoreNames : StoreEnqueue(name)
    \/ \E lid \in StoreIds : StoreRemove(lid)

SpecStore == InitStore /\ [][NextStore]_vars

(* ------------------------ the server's engine ------------------------- *)
\* The server is not part of the client's source: its three mutating calls
\* follow the design of the assignment engine (assign, autoAssign, delete).

\* another (member, slot) pair of the table holds sid
HeldElsewhere(table, m, loc, sid) ==
    \E m2 \in Members, s2 \in Slots :
        << m2, s2 >> # << m, loc >> /\ table[m2][s2] = sid

\* assign that accepts a signature another pair holds
srvAssignOk_NoUniqueCheck(sigs, table, m, loc, sid) ==
    /\ m \in Members
    /\ loc \in Slots
    /\ sid # Null => sid \in sigs

\* assign(member, slot, signatureId | null) is accepted
srvAssignOk(sigs, table, m, loc, sid) ==
    /\ m \in Members
    /\ loc \in Slots
    /\ sid # Null => (sid \in sigs /\ ~HeldElsewhere(table, m, loc, sid))

srvAssign(table, m, loc, sid) == [table EXCEPT ![m][loc] = sid]

\* the message of the server when it turns a request down
srvMessage(sigs, table, q) ==
    IF q.op = "delete" THEN "unknown signature"
    ELSE IF q.member \notin Members THEN "invalid request"
    ELSE IF q.op = "auto" THEN "not enough unused signatures"
    ELSE IF q.loc \notin Slots THEN "invalid request"
    ELSE IF q.sid \notin sigs THEN "unknown signature"
    ELSE "signature already used"

\* the signatures no (member, slot) pair holds
srvUnused(sigs, table) ==
    sigs \ { table[m][s] : m \in Members, s \in Slots }

srvEmptySlots(table, m) == { s \in Slots : table[m][s] = Null }

\* autoAssign(member) is accepted: enough unused signatures for the empty
\* slots
srvAutoOk(sigs, table, m) ==
    /\ m \in Members
    /\ Cardinality(srvUnused(sigs, table)) >= Cardinality(srvEmptySlots(table, m))

\* fill the empty slots of a row, in slot order, with the smallest free ids
RECURSIVE srvFill(_, _, _)
srvFill(row, i, free) ==
    IF i > Len(SlotList) THEN row
    ELSE IF row[SlotList[i]] # Null THEN srvFill(row, i + 1, free)
    ELSE LET x == CHOOSE y \in free : \A z \in free : y <= z IN
         srvFill([row EXCEPT ![SlotList[i]] = x], i + 1, free \ {x})

srvAuto(sigs, table, m) ==
    [table EXCEPT ![m] = srvFill(table[m], 1, srvUnused(sigs, table))]

\* delete that leaves the pairs that reference the signature as they are
srvDelete_NoCascade(table, sid) == table

\* delete(signature id): the cascade clears every pair that references it
srvDelete(table, sid) ==
    [m \in Members |-> [s \in Slots |->
        IF table[m][s] = sid THEN Null ELSE table[m][s]]]

(* ------------------------ rendering the table ------------------------- *)
\* this.assignments[location]
AssignmentAt(loc) ==
    IF loc \in DOMAIN assignments THEN assignments[loc] ELSE Undefined

\* renderAssignments: Object.values(this.assignments).filter(v => v !== null)
\* has fewer distinct values than entries
hasDuplicates ==
    \E k1, k2 \in DOMAIN assignments :
        k1 # k2 /\ assignments[k1] # Null /\ assignments[k1] = assignments[k2]

\* renderAssignments: ids the other members hold, read at the three slot keys
usedElsewhere ==
    { assignmentsByMember[m][loc] :
        m \in DOMAIN assignmentsByMember \ {renderedKey}, loc \in Slots }
    \ {Null}

\* renderAssignments: the box of loc carries the duplicate warning
isDuplicate(loc) ==
    /\ hasDuplicates
    /\ Cardinality({ k \in DOMAIN assignments :
                        assignments[k] # Null
                        /\ assignments[k] = AssignmentAt(loc) }) > 1

\* renderAssignments: the badge of the box of loc reads 'Assigned'
isAssigned(loc) == AssignmentAt(loc) # Null

\* renderSignatureOptions: the values of the other keys of this.assignments
otherAssignments(loc) ==
    { assignments[k] : k \in DOMAIN assignments \ {loc} } \ {Null}

isSelected(loc, sid) == AssignmentAt(loc) = sid

\* renderSignatureOptions: the option of sid in the box of loc is disabled
isDisabled(loc, sid) ==
    /\ sid \in otherAssignments(loc) \/ sid \in usedElsewhere
    /\ ~isSelected(loc, sid)

\* updateAssignmentAlert: the alert reads 'Duplicate assignments'
alertDuplicates ==
    \E k1, k2 \in DOMAIN assignments :
        k1 # k2 /\ assignments[k1] # Null /\ assignments[k1] = assignments[k2]

(* ----------------------- the client's engine -------------------------- *)
\* a reply to a request of the engine: a network error, a non-2xx reply whose
\* body is unreadable or a JSON error, a 2xx reply with an unreadable body,
\* or the server's answer to the request
EngineReplies ==
    { [net |-> FALSE, ok |-> FALSE, body |-> "none"],
      [net |-> TRUE, ok |-> FALSE, body |-> "notjson"],
      [net |-> TRUE, ok |-> FALSE, body |-> "error"],
      [net |-> TRUE, ok |-> TRUE, body |-> "notjson"],
      [net |-> TRUE, ok |-> TRUE, body |-> "json"] }

outboxVars == << revision, online, clock, storage, saved, reqs, loads,
                 modalOpen, initTimers, canvas, isDrawing, points,
                 strokeVars, deviceVars >>

\* the sequence s without its i-th element
Without(s, i) == SubSeq(s, 1, i - 1) \o SubSeq(s, i + 1, Len(s))

\* a list request as it is sent: then is what the caller of loadAllData
\* shows once loadAllData has returned ("" when it shows nothing) and arg the
\* signatureId of a deleteSignature call that awaits it (Null otherwise);
\* stale is history: a request issued after this one has been answered
ListRequest(msg, sid) ==
    [then |-> msg, arg |-> sid, served |-> FALSE,
     sigs |-> {}, table |-> EmptyTable, stale |-> FALSE]

\* the list requests in flight once the i-th has been answered
Answered(ls, i) ==
    [j \in 1..(Len(ls) - 1) |->
        IF j < i THEN [ls[j] EXCEPT !.stale = TRUE] ELSE ls[j + 1]]

\* loadAllData up to its first await, awaited by deleteSignature(sid)
loadAllDataAfterDelete(msg, sid) ==
    /\ Len(lists) < MaxLists
    /\ lists' = Append(lists, ListRequest(msg, sid))

\* loadAllData up to its first await, awaited by any other caller
loadAllDataEngine(msg) ==
    /\ Len(lists) < MaxLists
    /\ lists' = Append(lists, ListRequest(msg, Null))

\* the server answers a list request with the library and the table it has
ServeList(i) ==
    /\ i \in 1..Len(lists)
    /\ ~lists[i].served
    /\ lists' = [lists EXCEPT ![i].served = TRUE, ![i].sigs = srvSigs,
                               ![i].table = srvTable]
    /\ showNothing
    /\ UNCHANGED << outboxVars, srvSigs, srvTable, currentMemberKey,
                    signatures, assignmentsByMember, assignments, ereqs,
                    bulk, reset, renderedKey, ops >>

\* the rest of loadAllData once the list request has settled, then the rest
\* of its caller
ListReply(i, r) ==
    /\ i \in 1..Len(lists)
    /\ r.body = "json" => lists[i].served
    /\ lists' = Answered(lists, i)
    /\ IF r.net /\ r.ok /\ r.body = "json"
       THEN LET key == IF currentMemberKey # NoMember THEN currentMemberKey
                       ELSE MemberList[1]
            IN /\ signatures' = lists[i].sigs
               /\ assignmentsByMember' = lists[i].table
               /\ currentMemberKey' = key
               /\ assignments' = lists[i].table[key]
               /\ renderedKey' = key
               /\ shown' = lists[i].then
       ELSE /\ signatures' = {}
            /\ assignmentsByMember' = NoTable
            /\ assignments' = EmptySlots
            /\ renderedKey' = currentMemberKey
            /\ shown' = IF lists[i].then # "" THEN lists[i].then
                        ELSE "Failed to load signatures"
            /\ UNCHANGED currentMemberKey
    /\ UNCHANGED << outboxVars, srvSigs, srvTable, ereqs, bulk, reset, ops >>

\* the member select changes: sel.onchange
SelectMember(m) ==
    /\ ops < MaxOps
    /\ ops' = ops + 1
    /\ currentMemberKey' = m
    /\ loadAllDataEngine("")
    /\ showNothing
    /\ UNCHANGED << outboxVars, srvSigs, srvTable, signatures,
                    assignmentsByMember, assignments, ereqs, bulk, reset,
                    renderedKey >>

\* a request of the engine as it is sent
EngineRequest(op, from, m, loc, sid) ==
    [op |-> op, from |-> from, member |-> m, loc |-> loc, sid |-> sid,
     served |-> FALSE, result |-> "none"]

\* the user picks the option of sid (Null: 'No Signature') in the box of loc:
\* assignSignature up to its first await
AssignSignature(loc, sid) ==
    /\ ops < MaxOps
    /\ Len(ereqs) < MaxEng
    /\ sid # Null => (sid \in signatures /\ ~isDisabled(loc, sid))
    /\ ops' = ops + 1
    /\ ereqs' = Append(ereqs,
           EngineRequest("assign", "assign", currentMemberKey, loc, sid))
    /\ showNothing
    /\ UNCHANGED << outboxVars, srvSigs, srvTable, currentMemberKey,
                    signatures, assignmentsByMember, assignments, lists,
                    bulk, reset, renderedKey >>

\* autoAssign up to its first await
AutoAssign ==
    /\ ops < MaxOps
    /\ Len(ereqs) < MaxEng
    /\ ops' = ops + 1
    /\ ereqs' = Append(ereqs,
           EngineRequest("auto", "auto", currentMemberKey, "", Null))
    /\ showNothing
    /\ UNCHANGED << outboxVars, srvSigs, srvTable, currentMemberKey,
                    signatures, assignmentsByMember, assignments, lists,
                    bulk, reset, renderedKey >>

\* deleteSignature up to its first await; proceed is the answer to confirm()
DeleteSignature(sid, proceed) ==
    /\ ops < MaxOps
    /\ sid \in signatures
    /\ ops' = ops + 1
    /\ IF proceed
       THEN /\ Len(ereqs) < MaxEng
            /\ ereqs' = Append(ereqs,
                   EngineRequest("delete", "delete", NoMember, "", sid))
       ELSE UNCHANGED ereqs
    /\ showNothing
    /\ UNCHANGED << outboxVars, srvSigs, srvTable, currentMemberKey,
                    signatures, assignmentsByMember, assignments, lists,
                    bulk, reset, renderedKey >>

\* resetAssignments up to its first await; proceed is the answer to
\* confirm(), which names the selected member
ResetAssignments(proceed) ==
    /\ ops < MaxOps
    /\ ~reset.active
    /\ ops' = ops + 1
    /\ IF currentMemberKey = NoMember
       THEN /\ showAlert("Select a member first")
            /\ UNCHANGED << ereqs, reset >>
       ELSE IF ~proceed
       THEN /\ showNothing
            /\ UNCHANGED << ereqs, reset >>
       ELSE /\ Len(ereqs) < MaxEng
            /\ reset' = [active |-> TRUE, idx |-> 1,
                         member |-> currentMemberKey, ended |-> "no"]
            /\ ereqs' = Append(ereqs,
                   EngineRequest("assign", "reset", currentMemberKey,
                                 SlotList[1], Null))
            /\ showNothing
    /\ UNCHANGED << outboxVars, srvSigs, srvTable, currentMemberKey,
                    signatures, assignmentsByMember, assignments, lists,
                    bulk, renderedKey >>

\* bulkAutoAssign that sends the requests of all members before it awaits
\* any reply
BulkAutoAssign_AllAtOnce(proceed) ==
    /\ ops < MaxOps
    /\ ~bulk.active
    /\ ops' = ops + 1
    /\ IF ~proceed
       THEN UNCHANGED << ereqs, bulk >>
       ELSE /\ Len(ereqs) + Len(MemberList) <= MaxEng
            /\ bulk' = [active |-> TRUE, idx |-> Len(MemberList),
                        successCount |-> 0, failures |-> <<>>,
                        ended |-> "no"]
            /\ ereqs' = ereqs \o
                   [k \in 1..Len(MemberList) |->
                       EngineRequest("auto", "bulk", MemberList[k], "", Null)]
    /\ showNothing
    /\ UNCHANGED << outboxVars, srvSigs, srvTable, currentMemberKey,
                    signatures, assignmentsByMember, assignments, lists,
                    reset, renderedKey >>

\* bulkAutoAssign up to its first await; this.members is loaded
BulkAutoAssign(proceed) ==
    /\ ops < MaxOps
    /\ ~bulk.active
    /\ ops' = ops + 1
    /\ IF ~proceed
       THEN UNCHANGED << ereqs, bulk >>
       ELSE /\ Len(ereqs) < MaxEng
            /\ bulk' = [active |-> TRUE, idx |-> 1, successCount |-> 0,
                        failures |-> <<>>, ended |-> "no"]
            /\ ereqs' = Append(ereqs,
                   EngineRequest("auto", "bulk", MemberList[1], "", Null))
    /\ showNothing
    /\ UNCHANGED << outboxVars, srvSigs, srvTable, currentMemberKey,
                    signatures, assignmentsByMember, assignments, lists,
                    reset, renderedKey >>

\* the server handles a request of the engine
Serve(i) ==
    /\ i \in 1..Len(ereqs)
    /\ ~ereqs[i].served
    /\ LET q == ereqs[i]
           accepted ==
               CASE q.op = "assign" ->
                        srvAssignOk(srvSigs, srvTable, q.member, q.loc, q.sid)
                 [] q.op = "auto" -> srvAutoOk(srvSigs, srvTable, q.member)
                 [] q.op = "delete" -> q.sid \in srvSigs
       IN /\ ereqs' = [ereqs EXCEPT
                        ![i].served = TRUE,
                        ![i].result = IF accepted THEN "success"
                                      ELSE srvMessage(srvSigs, srvTable, q)]
          /\ srvTable' =
                IF ~accepted THEN srvTable
                ELSE CASE q.op = "assign" ->
                              srvAssign(srvTable, q.member, q.loc, q.sid)
                       [] q.op = "auto" -> srvAuto(srvSigs, srvTable, q.member)
                       [] q.op = "delete" -> srvDelete(srvTable, q.sid)
          /\ srvSigs' = IF accepted /\ q.op = "delete"
                        THEN srvSigs \ {q.sid} ELSE srvSigs
    /\ showNothing
    /\ UNCHANGED << outboxVars, currentMemberKey, signatures,
                    assignmentsByMember, assignments, lists, bulk, reset,
                    renderedKey, ops >>

\* a reply r can be the reply to the i-th request in flight: the server's
\* own answer comes only after the server has handled the request
CanReply(i, r) ==
    /\ i \in 1..Len(ereqs)
    /\ r.body = "json" => ereqs[i].served

\* result.status of a reply whose body is JSON: 'success' or not
replyStatus(q, r) ==
    IF r.body = "json" /\ q.result = "success" THEN "success" ELSE "error"

\* the alerts that carry result.message
rejectedMessage(q) ==
    CASE q.result = "signature already used" -> "rejected: already used"
      [] q.result = "unknown signature" -> "rejected: unknown signature"
      [] OTHER -> "rejected: invalid request"

warningMessage(q) ==
    CASE q.result = "not enough unused signatures" -> "warning: not enough"
      [] OTHER -> "warning: invalid request"

\* assignSignature that does not reload after a rejection
assignSignatureReply_NoReload(i, r) ==
    /\ ereqs' = Without(ereqs, i)
    /\ IF ~r.net THEN showAlert("Assignment failed") /\ UNCHANGED lists
       ELSE IF ~r.ok THEN showNothing /\ UNCHANGED lists
       ELSE IF r.body = "notjson"
       THEN showAlert("Assignment failed") /\ UNCHANGED lists
       ELSE IF replyStatus(ereqs[i], r) = "success"
       THEN showNothing /\ loadAllDataEngine("ok: message")
       ELSE showAlert(rejectedMessage(ereqs[i])) /\ UNCHANGED lists

\* the rest of assignSignature
assignSignatureReply(i, r) ==
    /\ ereqs' = Without(ereqs, i)
    /\ IF ~r.net THEN showAlert("Assignment failed") /\ UNCHANGED lists
       ELSE IF ~r.ok THEN showNothing /\ UNCHANGED lists
       ELSE IF r.body = "notjson"
       THEN showAlert("Assignment failed") /\ UNCHANGED lists
       ELSE IF replyStatus(ereqs[i], r) = "success"
       THEN showNothing /\ loadAllDataEngine("ok: message")
       ELSE showAlert(rejectedMessage(ereqs[i])) /\ loadAllDataEngine("")

AssignReply(i, r) ==
    /\ CanReply(i, r)
    /\ ereqs[i].from = "assign"
    /\ assignSignatureReply(i, r)
    /\ UNCHANGED << outboxVars, srvSigs, srvTable, currentMemberKey,
                    signatures, assignmentsByMember, assignments, bulk,
                    reset, renderedKey, ops >>

\* the rest of autoAssign
autoAssignReply(i, r) ==
    /\ ereqs' = Without(ereqs, i)
    /\ IF ~r.net THEN showAlert("Auto-assign failed") /\ UNCHANGED lists
       ELSE IF ~r.ok THEN showNothing /\ UNCHANGED lists
       ELSE IF r.body = "notjson"
       THEN showAlert("Auto-assign failed") /\ UNCHANGED lists
       ELSE IF replyStatus(ereqs[i], r) = "success"
       THEN showNothing /\ loadAllDataEngine("ok: message")
       ELSE showAlert(warningMessage(ereqs[i])) /\ UNCHANGED lists

\* autoAssign that resets the loaded assignments of the member when the
\* server reports a failure
AutoReply_ClearsOnFailure(i, r) ==
    /\ CanReply(i, r)
    /\ ereqs[i].from = "auto"
    /\ autoAssignReply(i, r)
    /\ assignments' =
          IF r.net /\ r.ok /\ r.body = "json"
             /\ replyStatus(ereqs[i], r) # "success"
          THEN EmptySlots ELSE assignments
    /\ UNCHANGED << outboxVars, srvSigs, srvTable, currentMemberKey,
                    signatures, assignmentsByMember, bulk,
                    reset, renderedKey, ops >>

AutoReply(i, r) ==
    /\ CanReply(i, r)
    /\ ereqs[i].from = "auto"
    /\ autoAssignReply(i, r)
    /\ UNCHANGED << outboxVars, srvSigs, srvTable, currentMemberKey,
                    signatures, assignmentsByMember, assignments, bulk,
                    reset, renderedKey, ops >>

\* the rest of deleteSignature
deleteSignatureReply(i, r) ==
    /\ ereqs' = Without(ereqs, i)
    /\ IF ~r.net THEN showAlert("Delete failed") /\ UNCHANGED lists
       ELSE IF ~r.ok THEN showNothing /\ UNCHANGED lists
       ELSE IF r.body = "notjson"
       THEN showAlert("Delete failed") /\ UNCHANGED lists
       ELSE IF replyStatus(ereqs[i], r) = "success"
       THEN /\ showNothing
            /\ loadAllDataAfterDelete("Signature deleted", ereqs[i].sid)
       ELSE showAlert("Delete failed") /\ UNCHANGED lists

DeleteReply(i, r) ==
    /\ CanReply(i, r)
    /\ ereqs[i].from = "delete"
    /\ deleteSignatureReply(i, r)
    /\ UNCHANGED << outboxVars, srvSigs, srvTable, currentMemberKey,
                    signatures, assignmentsByMember, assignments, bulk,
                    reset, renderedKey, ops >>

\* the rest of one turn of the loop of resetAssignments, and after the last
\* turn the rest of resetAssignments
resetAssignmentsReply(i, r) ==
    IF ~r.net \/ ~r.ok \/ r.body = "notjson"
       \/ replyStatus(ereqs[i], r) # "success"
    THEN /\ showAlert(IF r.net /\ ~r.ok THEN "Reset failed (server error)"
                      ELSE "Reset failed")
         /\ reset' = [reset EXCEPT !.active = FALSE, !.ended = "failed"]
         /\ ereqs' = Without(ereqs, i)
         /\ UNCHANGED lists
    ELSE IF reset.idx < Len(SlotList)
    THEN /\ reset' = [reset EXCEPT !.idx = reset.idx + 1]
         /\ ereqs' = Append(Without(ereqs, i),
                EngineRequest("assign", "reset", currentMemberKey,
                              SlotList[reset.idx + 1], Null))
         /\ showNothing
         /\ UNCHANGED lists
    ELSE /\ reset' = [reset EXCEPT !.active = FALSE, !.ended = "done"]
         /\ ereqs' = Without(ereqs, i)
         /\ showNothing
         /\ loadAllDataEngine("Assignments reset")

ResetReply(i, r) ==
    /\ CanReply(i, r)
    /\ ereqs[i].from = "reset"
    /\ resetAssignmentsReply(i, r)
    /\ UNCHANGED << outboxVars, srvSigs, srvTable, currentMemberKey,
                    signatures, assignmentsByMember, assignments, bulk,
                    renderedKey, ops >>

\* the rest of one turn of the loop of bulkAutoAssign, and after the last
\* turn the rest of bulkAutoAssign
bulkAutoAssignReply(i, r) ==
    IF ~r.net \/ r.body = "notjson"
    THEN \* fetch or resp.json() throws: the catch around the loop
         /\ showAlert("Bulk auto-assign failed")
         /\ bulk' = [bulk EXCEPT !.active = FALSE, !.ended = "aborted"]
         /\ ereqs' = Without(ereqs, i)
         /\ UNCHANGED lists
    ELSE LET ok == replyStatus(ereqs[i], r) = "success"
             counted == [bulk EXCEPT
                 !.successCount = IF ok THEN @ + 1 ELSE @,
                 !.failures = IF ok THEN @ ELSE Append(@, ereqs[i].member)]
         IN IF bulk.idx < Len(MemberList)
            THEN /\ bulk' = [counted EXCEPT !.idx = bulk.idx + 1]
                 /\ ereqs' = Append(Without(ereqs, i),
                        EngineRequest("auto", "bulk",
                                      MemberList[bulk.idx + 1], "", Null))
                 /\ showNothing
                 /\ UNCHANGED lists
            ELSE /\ bulk' = [counted EXCEPT !.active = FALSE,
                                            !.ended = "finished"]
                 /\ ereqs' = Without(ereqs, i)
                 /\ showNothing
                 /\ loadAllDataEngine(IF counted.failures = <<>>
                                      THEN "Auto-assigned all"
                                      ELSE "Auto-assigned some")

BulkReply(i, r) ==
    /\ CanReply(i, r)
    /\ ereqs[i].from = "bulk"
    /\ bulkAutoAssignReply(i, r)
    /\ UNCHANGED << outboxVars, srvSigs, srvTable, currentMemberKey,
                    signatures, assignmentsByMember, assignments, reset,
                    renderedKey, ops >>

\* the tables the server may hold when the page is opened
InitTables ==
    { EmptyTable,
      [EmptyTable EXCEPT !["A"]["toris_certifying_officer"] = 1] }

\* The page is opened online on a server with a full library: loadMembers
\* has selected the first member and the list request of init is in flight.
\* The outbox is empty and stays so.
InitEngine ==
    /\ revision = "fixed"
    /\ online = TRUE
    /\ clock = 1
    /\ storage = [present |-> FALSE, items |-> <<>>]
    /\ saved = {}
    /\ reqs = <<>>
    /\ loads = <<>>
    /\ shown = ""
    /\ modalOpen = FALSE
    /\ initTimers = 0
    /\ canvas = FALSE
    /\ isDrawing = FALSE
    /\ points = 0
    /\ srvSigs = SigIds
    /\ srvTable \in InitTables
    /\ currentMemberKey = MemberList[1]
    /\ signatures = {}
    /\ assignmentsByMember = NoTable
    /\ assignments = NoSlots
    /\ ereqs = <<>>
    /\ lists = << ListRequest("", Null) >>
    /\ bulk = NoBulk
    /\ reset = NoReset
    /\ renderedKey = NoMember
    /\ ops = 0
    /\ StrokeOff
    /\ DeviceOff

BoxKeys == { RenderLocations[i] : i \in 1..Len(RenderLocations) }

NextEngine ==
    \/ \E i \in 1..MaxLists : ServeList(i)
    \/ \E i \in 1..MaxLists, r \in EngineReplies : ListReply(i, r)
    \/ \E m \in Members \cup {NoMember} : SelectMember(m)
    \/ \E loc \in BoxKeys, sid \in SigIds \cup {Null} : AssignSignature(loc, sid)
    \/ AutoAssign
    \/ \E sid \in SigIds, proceed \in BOOLEAN : DeleteSignature(sid, proceed)
    \/ \E proceed \in BOOLEAN : ResetAssignments(proceed)
    \/ \E proceed \in BOOLEAN : BulkAutoAssign(proceed)
    \/ \E i \in 1..MaxEng : Serve(i)
    \/ \E i \in 1..MaxEng, r \in EngineReplies : AssignReply(i, r)
    \/ \E i \in 1..MaxEng, r \in EngineReplies : AutoReply(i, r)
    \/ \E i \in 1..MaxEng, r \in EngineReplies : DeleteReply(i, r)
    \/ \E i \in 1..MaxEng, r \in EngineReplies : ResetReply(i, r)
    \/ \E i \in 1..MaxEng, r \in EngineReplies : BulkReply(i, r)

SpecEngine == InitEngine /\ [][NextEngine]_vars

(* ------------------------ rendering alone ----------------------------- *)
\* Loading and rendering whatever table a list reply carries, also one that
\* breaks the no-reuse rule: the duplicate check is there for such a table.
AllTables == [Members -> [Slots -> SigIds \cup {Null}]]

InitRender ==
    /\ revision = "fixed"
    /\ online = TRUE
    /\ clock = 1
    /\ storage = [present |-> FALSE, items |-> <<>>]
    /\ saved = {}
    /\ reqs = <<>>
    /\ loads = <<>>
    /\ shown = ""
    /\ modalOpen = FALSE
    /\ initTimers = 0
    /\ canvas = FALSE
    /\ isDrawing = FALSE
    /\ points = 0
    /\ srvSigs = SigIds
    /\ srvTable \in AllTables
    /\ currentMemberKey = MemberList[1]
    /\ signatures = {}
    /\ assignmentsByMember = NoTable
    /\ assignments = NoSlots
    /\ ereqs = <<>>
    /\ lists = << ListRequest("", Null) >>
    /\ bulk = NoBulk
    /\ reset = NoReset
    /\ renderedKey = NoMember
    /\ ops = 0
    /\ StrokeOff
    /\ DeviceOff

NextRender ==
    \/ \E i \in 1..MaxLists : ServeList(i)
    \/ \E i \in 1..MaxLists, r \in EngineReplies : ListReply(i, r)
    \/ \E m \in Members \cup {NoMember} : SelectMember(m)

SpecRender == InitRender /\ [][NextRender]_vars

(* --------------------------- the smoother ----------------------------- *)
\* Lengths are in hundredths of a pixel and times in milliseconds.  A stroke
\* runs along one axis: the code treats y exactly as it treats x, and
\* Math.hypot of one component is its absolute value.  Divisions round down.
\* "fixed" and "legacy" are the two revisions of _strokeMove / _addPoint
\* (part_000 lines 1065-1195, signature-manager.js lines 255-370);
\* "quadratic" is the older smoother _drawSmoothPoint (signature-manager.js
\* lines 1185-1217).
JitterThreshold == 35   \* _strokeMove: dist < 0.35 is ignored

StrokeRevisions == {"fixed", "legacy"}
WidthRevisions == {"fixed", "legacy", "quadratic"}

maxW(rev) ==
    CASE rev = "fixed" -> 300 [] rev = "legacy" -> 500 [] OTHER -> 380

minW(rev) ==
    CASE rev = "fixed" -> 80 [] rev = "legacy" -> 120 [] OTHER -> 180

\* k, in tenths
kTenths(rev) ==
    CASE rev = "fixed" -> 55 [] rev = "legacy" -> 60 [] OTHER -> 40

\* the share of the last width in the blended width, per cent
keepPct(rev) == IF rev = "quadratic" THEN 70 ELSE 65

\* baseStep, minStep and the cap of the speed term, in ten-thousandths of a
\* pixel; the factor of the speed term per cent; the least number of
\* sub-points
baseStep(rev) == IF rev = "fixed" THEN 2500 ELSE 4000
minStep(rev) == IF rev = "fixed" THEN 500 ELSE 800
speedCap(rev) == IF rev = "fixed" THEN 2000 ELSE 3000
speedGain(rev) == IF rev = "fixed" THEN 40 ELSE 50
minSegments(rev) == IF rev = "fixed" THEN 2 ELSE 1

Abs(a) == IF a < 0 THEN 0 - a ELSE a
Max(a, b) == IF a >= b THEN a ELSE b
Min(a, b) == IF a <= b THEN a ELSE b

\* the velocity factor vf is kept in steps of 1 / VfScale
VfScale == 50

\* Math.pow(x, 0.8) for x in [0, 1]: the largest y with y^5 <= x^4
pow08(x) ==
    CHOOSE y \in 0..VfScale :
        /\ y^5 <= VfScale * x^4
        /\ (y + 1)^5 > VfScale * x^4

\* the velocity factor without Math.min(1, ...): it grows with the velocity
velocityFactor_NoClamp(rev, dist, dt) ==
    (VfScale * dist * kTenths(rev)) \div (10 * dt * maxW(rev))

\* vf = Math.min(1, Math.pow(v * k / maxW, 0.8)) with v = dist / dt, and
\* velocityFactor = Math.min(1.0, v * k / maxW) of the quadratic smoother
velocityFactor(rev, dist, dt) ==
    LET r == (VfScale * dist * kTenths(rev)) \div (10 * dt * maxW(rev))
    IN IF r >= VfScale THEN VfScale
       ELSE IF rev = "quadratic" THEN r
       ELSE pow08(r)

\* wRaw = maxW - vf * (maxW - minW)
rawWidth(rev, vf) == maxW(rev) - (vf * (maxW(rev) - minW(rev))) \div VfScale

\* w = lastW * 0.65 + wRaw * 0.35 (0.7 and 0.3 in the quadratic smoother)
blendWidth(rev, lastW, wRaw) ==
    (keepPct(rev) * lastW + (100 - keepPct(rev)) * wRaw) \div 100

\* _addPoint that draws from P0 to P2 of the window
addPoint_SkipWindow(rev, d, p) ==
    LET st == d.stroke
        dt == Max(8, p.t - st.lastT)
        lp == st.pts[Len(st.pts)]
        w == blendWidth(rev, st.lastW,
                 rawWidth(rev, velocityFactor(rev, Abs(p.x - lp.x), dt)))
        pt == [x |-> (25 * lp.x + 75 * p.x) \div 100, t |-> p.t, w |-> w]
        pts == Append(st.pts, pt)
        n == Len(pts)
    IN IF n < 4
       THEN [d EXCEPT !.stroke = [st EXCEPT !.pts = pts, !.lastW = w,
                                            !.lastT = p.t]]
       ELSE [d EXCEPT !.stroke = [st EXCEPT !.pts = pts, !.lastW = w,
                                            !.lastT = p.t],
                      !.lineWidth = (pts[n - 2].w + pts[n - 1].w) \div 2,
                      !.segs = Append(@, [from |-> pts[n - 3],
                                          to |-> pts[n - 1],
                                          w |-> (pts[n - 2].w + pts[n - 1].w)
                                                   \div 2])]

\* _addPoint(p): the blended width, the smoothed point, and from the fourth
\* point on the segment from P1 to P2 of the last four points; d holds
\* this._stroke, the segments drawn, ctx.lineWidth and this.points
addPoint(rev, d, p) ==
    LET st == d.stroke
        dt == Max(8, p.t - st.lastT)
        lp == st.pts[Len(st.pts)]
        w == blendWidth(rev, st.lastW,
                 rawWidth(rev, velocityFactor(rev, Abs(p.x - lp.x), dt)))
        pt == [x |-> (25 * lp.x + 75 * p.x) \div 100, t |-> p.t, w |-> w]
        pts == Append(st.pts, pt)
        n == Len(pts)
    IN IF n < 4
       THEN [d EXCEPT !.stroke = [st EXCEPT !.pts = pts, !.lastW = w,
                                            !.lastT = p.t]]
       ELSE [d EXCEPT !.stroke = [st EXCEPT !.pts = pts, !.lastW = w,
                                            !.lastT = p.t],
                      !.lineWidth = (pts[n - 2].w + pts[n - 1].w) \div 2,
                      !.segs = Append(@, [from |-> pts[n - 2],
                                          to |-> pts[n - 1],
                                          w |-> (pts[n - 2].w + pts[n - 1].w)
                                                   \div 2])]

\* _drawSmoothPoint(p) of the quadratic smoother: the width and the curve
\* from the last mid point to the new one; raw holds _lastPoint, lastT
\* _lastTs, lastW _lastWidth and pts the one point _lastMid
drawSmoothPoint(rev, d, p) ==
    LET st == d.stroke
        lastPoint == st.raw[1]
        mid == (lastPoint.x + p.x) \div 2
        dt == Max(8, p.t - st.lastT)
        w == rawWidth(rev, velocityFactor(rev, Abs(p.x - lastPoint.x), dt))
        smoothW == blendWidth(rev, IF st.lastW = 0 THEN w ELSE st.lastW, w)
        to == [x |-> mid, t |-> p.t, w |-> smoothW]
    IN [d EXCEPT !.stroke = [st EXCEPT !.lastW = smoothW, !.pts = << to >>],
                 !.lineWidth = smoothW,
                 !.segs = Append(@, [from |-> st.pts[1], to |-> to,
                                     w |-> smoothW])]

\* the curvature hint of _strokeMove, per cent: along one axis the angle
\* between the last two directions is 0 or 180 degrees
turnBoost(pl, x) ==
    IF Len(pl) >= 3
    THEN LET v1 == pl[Len(pl)] - pl[Len(pl) - 1]
             v2 == x - pl[Len(pl)]
         IN IF v1 # 0 /\ v2 # 0 /\ v1 * v2 < 0 THEN 165 ELSE 100
    ELSE 100

\* step of _strokeMove, in ten-thousandths of a pixel, for a move of length
\* dist that took dt, with the curvature hint boost (per cent)
stepSize(rev, dist, dt, boost) ==
    LET gain == (dist * speedGain(rev)) \div dt
    IN Max(minStep(rev),
           ((baseStep(rev) - Min(speedCap(rev), gain)) * 100) \div boost)

\* n of _strokeMove with Math.floor in the place of Math.ceil
subPoints_RoundsDown(rev, dist, dt, boost) ==
    Max(minSegments(rev), (dist * 100) \div stepSize(rev, dist, dt, boost))

\* n of _strokeMove: the number of sub-points of a move of length dist that
\* took dt
subPoints(rev, dist, dt, boost) ==
    LET step == stepSize(rev, dist, dt, boost)
    IN Max(minSegments(rev), (dist * 100 + step - 1) \div step)

\* the loop of _strokeMove from its i-th turn on: from the raw point a to
\* (x, t) in n steps
RECURSIVE resample(_, _, _, _, _, _, _)
resample(rev, d, a, x, t, i, n) ==
    IF i > n THEN d
    ELSE LET px == (a.x * n + (x - a.x) * i) \div n
             ts == (a.t * n + (t - a.t) * i) \div n
             d1 == addPoint(rev, d, [x |-> px, t |-> ts])
         IN resample(rev, [d1 EXCEPT !.pointList = Append(@, px)],
                     a, x, t, i + 1, n)

\* what a stroke changes
inkVars == << isDrawing, points, stroke, pointList, segs, lineWidth, ink >>

\* _strokeStart that appends the start point to this.points
strokeStart_KeepsPoints(x, t) ==
    IF ~canvas THEN UNCHANGED inkVars
    ELSE LET sp == [x |-> x, t |-> t, w |-> InitialWidth] IN
         /\ isDrawing' = TRUE
         /\ pointList' = Append(pointList, x)
         /\ points' = Len(pointList) + 1
         /\ stroke' = [raw |-> << [x |-> x, t |-> t] >>,
                       pts |-> << sp, sp, sp, sp >>,
                       lastT |-> t, lastW |-> InitialWidth]
         /\ lineWidth' = InitialWidth
         /\ segs' = <<>>
         /\ ink' = Min(ink + 1, MaxInk)

\* _strokeStart(p)
strokeStart(x, t) ==
    IF ~canvas THEN UNCHANGED inkVars
    ELSE LET sp == [x |-> x, t |-> t, w |-> InitialWidth] IN
         /\ isDrawing' = TRUE
         /\ pointList' = << x >>
         /\ points' = 1
         /\ stroke' = [raw |-> << [x |-> x, t |-> t] >>,
                       pts |-> << sp, sp, sp, sp >>,
                       lastT |-> t, lastW |-> InitialWidth]
         /\ lineWidth' = InitialWidth
         /\ segs' = <<>>
         /\ ink' = Min(ink + 1, MaxInk)

\* _strokeMove that moves the raw point also when it ignores the move
strokeMove_JitterMovesRaw(x, t) ==
    IF ~isDrawing \/ ~canvas \/ stroke.raw = <<>> THEN UNCHANGED inkVars
    ELSE LET a == stroke.raw[1]
             dist == Abs(x - a.x)
             dt == IF t - a.t = 0 THEN 1 ELSE Max(1, t - a.t)
             n == subPoints(revision, dist, dt, turnBoost(pointList, x))
             d == resample(revision,
                           [stroke |-> stroke, segs |-> segs,
                            lineWidth |-> lineWidth, pointList |-> pointList],
                           a, x, t, 1, n)
         IN IF dist < JitterThreshold
            THEN /\ stroke' = [stroke EXCEPT !.raw = << [x |-> x, t |-> t] >>]
                 /\ UNCHANGED << isDrawing, points, pointList, segs,
                                 lineWidth, ink >>
            ELSE /\ Len(pointList) + n <= MaxPoints
                 /\ stroke' = [d.stroke EXCEPT
                                  !.raw = << [x |-> x, t |-> t] >>]
                 /\ pointList' = d.pointList
                 /\ points' = Len(d.pointList)
                 /\ segs' = d.segs
                 /\ lineWidth' = d.lineWidth
                 /\ UNCHANGED << isDrawing, ink >>

\* _strokeMove(p)
strokeMove(x, t) ==
    IF ~isDrawing \/ ~canvas \/ stroke.raw = <<>> THEN UNCHANGED inkVars
    ELSE LET a == stroke.raw[1]
             dist == Abs(x - a.x)
             dt == IF t - a.t = 0 THEN 1 ELSE Max(1, t - a.t)
             n == subPoints(revision, dist, dt, turnBoost(pointList, x))
             d == resample(revision,
                           [stroke |-> stroke, segs |-> segs,
                            lineWidth |-> lineWidth, pointList |-> pointList],
                           a, x, t, 1, n)
         IN IF dist < JitterThreshold THEN UNCHANGED inkVars
            ELSE /\ Len(pointList) + n <= MaxPoints
                 /\ stroke' = [d.stroke EXCEPT
                                  !.raw = << [x |-> x, t |-> t] >>]
                 /\ pointList' = d.pointList
                 /\ points' = Len(d.pointList)
                 /\ segs' = d.segs
                 /\ lineWidth' = d.lineWidth
                 /\ UNCHANGED << isDrawing, ink >>

\* _strokeEnd that leaves the stroke open
strokeEnd_StaysOpen == UNCHANGED inkVars

\* _strokeEnd()
strokeEnd ==
    /\ isDrawing' = FALSE
    /\ stroke' = NoStroke
    /\ UNCHANGED << points, pointList, segs, lineWidth, ink >>

\* what the canvas events leave alone
strokeFrame ==
    UNCHANGED << engineVars, deviceVars, revision, online, clock, storage,
                 saved, reqs, loads, modalOpen, initTimers, canvas,
                 pointerEvents, bound >>

\* Every canvas event below is delivered only while the listeners of
\* _bindCanvasEvents are bound to the canvas (bound >= 1), and a press only
\* while the modal shows the canvas: a hidden canvas cannot be pressed.

\* 'pointerdown' of pointer id at x; primary is false for a mouse button
\* other than the main one
PointerDown(id, primary, x) ==
    /\ bound >= 1
    /\ modalOpen
    /\ pointerEvents
    /\ IF ~primary THEN UNCHANGED << inkVars, captured >>
       ELSE /\ captured' = id
            /\ strokeStart(x, now)
    /\ lastEvent' = "down"
    /\ showNothing
    /\ UNCHANGED now
    /\ strokeFrame

\* 'pointermove' of pointer id at x, dt after the event before it
PointerMove(id, x, dt) ==
    /\ bound >= 1
    /\ pointerEvents
    /\ now + dt <= MaxNow
    /\ now' = now + dt
    /\ IF ~isDrawing THEN UNCHANGED inkVars ELSE strokeMove(x, now + dt)
    /\ lastEvent' = "move"
    /\ showNothing
    /\ UNCHANGED captured
    /\ strokeFrame

\* 'pointerup' of pointer id
PointerUp(id) ==
    /\ bound >= 1
    /\ pointerEvents
    /\ IF ~isDrawing THEN UNCHANGED inkVars ELSE strokeEnd
    /\ lastEvent' = "up"
    /\ showNothing
    /\ UNCHANGED << captured, now >>
    /\ strokeFrame

\* 'pointercancel' of pointer id
PointerCancel(id) ==
    /\ bound >= 1
    /\ pointerEvents
    /\ IF ~isDrawing THEN UNCHANGED inkVars ELSE strokeEnd
    /\ lastEvent' = "cancel"
    /\ showNothing
    /\ UNCHANGED << captured, now >>
    /\ strokeFrame

\* 'touchstart' / 'mousedown' where there are no pointer events
FallbackStart(x) ==
    /\ bound >= 1
    /\ modalOpen
    /\ ~pointerEvents
    /\ strokeStart(x, now)
    /\ lastEvent' = "down"
    /\ showNothing
    /\ UNCHANGED << captured, now >>
    /\ strokeFrame

\* 'touchmove' / 'mousemove' where there are no pointer events
FallbackMove(x, dt) ==
    /\ bound >= 1
    /\ ~pointerEvents
    /\ now + dt <= MaxNow
    /\ now' = now + dt
    /\ IF ~isDrawing THEN UNCHANGED inkVars ELSE strokeMove(x, now + dt)
    /\ lastEvent' = "move"
    /\ showNothing
    /\ UNCHANGED captured
    /\ strokeFrame

\* 'touchend' / 'touchcancel' / 'mouseup' where there are no pointer events
FallbackEnd ==
    /\ bound >= 1
    /\ ~pointerEvents
    /\ strokeEnd
    /\ lastEvent' = "up"
    /\ showNothing
    /\ UNCHANGED << captured, now >>
    /\ strokeFrame

\* where the events happen, the time between two of them, and the pointers
EventXs == {0, 30, 50, 100}
EventDts == {10, 40}
PointerIds == {1, 2}

\* The create modal is open and its timer has run setupCanvas and
\* clearCanvas: the canvas is bound and no stroke has begun.
InitStroke ==
    /\ EngineOff
    /\ DeviceOff
    /\ revision \in StrokeRevisions
    /\ online = TRUE
    /\ clock = 1
    /\ storage = [present |-> FALSE, items |-> <<>>]
    /\ saved = {}
    /\ reqs = <<>>
    /\ loads = <<>>
    /\ shown = ""
    /\ modalOpen = TRUE
    /\ initTimers = 0
    /\ canvas = TRUE
    /\ isDrawing = FALSE
    /\ points = 0
    /\ stroke = NoStroke
    /\ pointList = <<>>
    /\ segs = <<>>
    /\ lineWidth = 0
    /\ captured = NoPointer
    /\ pointerEvents \in BOOLEAN
    /\ now = 0
    /\ lastEvent = "none"
    /\ bound = 1
    /\ ink = 0

NextStroke ==
    \/ \E id \in PointerIds, primary \in BOOLEAN, x \in EventXs :
          PointerDown(id, primary, x)
    \/ \E id \in PointerIds, x \in EventXs, dt \in EventDts :
          PointerMove(id, x, dt)
    \/ \E id \in PointerIds : PointerUp(id)
    \/ \E id \in PointerIds : PointerCancel(id)
    \/ \E x \in EventXs : FallbackStart(x)
    \/ \E x \in EventXs, dt \in EventDts : FallbackMove(x, dt)
    \/ FallbackEnd

SpecStroke == InitStroke /\ [][NextStroke]_vars

(* ------------------------- the widths alone --------------------------- *)
\* _addPoint and _drawSmoothPoint driven directly on a stroke that has
\* started: any distance from the last point, velocity 0 and a jump across
\* the screen included.
WidthDists == {0, 40, 100000}
WidthDts == {0, 100}

\* _addPoint(p) / _drawSmoothPoint(p) for a point dist away, dt later
AddPoint(dist, dt) ==
    /\ Len(segs) < MaxAdds
    /\ now' = now + dt
    /\ LET d == [stroke |-> stroke, segs |-> segs, lineWidth |-> lineWidth,
                 pointList |-> pointList]
           d1 == IF revision = "quadratic"
                 THEN drawSmoothPoint(revision, d,
                          [x |-> stroke.raw[1].x + dist, t |-> now + dt])
                 ELSE addPoint(revision, d,
                          [x |-> stroke.pts[Len(stroke.pts)].x + dist,
                           t |-> now + dt])
       IN /\ stroke' = d1.stroke
          /\ segs' = d1.segs
          /\ lineWidth' = d1.lineWidth
    /\ lastEvent' = "move"
    /\ showNothing
    /\ UNCHANGED << isDrawing, points, pointList, captured, ink >>
    /\ strokeFrame

\* a stroke has started at the origin (in the quadratic smoother _lastMid
\* is the start point)
InitWidth ==
    /\ EngineOff
    /\ DeviceOff
    /\ revision \in WidthRevisions
    /\ online = TRUE
    /\ clock = 1
    /\ storage = [present |-> FALSE, items |-> <<>>]
    /\ saved = {}
    /\ reqs = <<>>
    /\ loads = <<>>
    /\ shown = ""
    /\ modalOpen = TRUE
    /\ initTimers = 0
    /\ canvas = TRUE
    /\ isDrawing = TRUE
    /\ points = 1
    /\ pointList = << 0 >>
    /\ stroke = LET sp == [x |-> 0, t |-> 0, w |-> InitialWidth] IN
                [raw |-> << [x |-> 0, t |-> 0] >>,
                 pts |-> IF revision = "quadratic" THEN << sp >>
                         ELSE << sp, sp, sp, sp >>,
                 lastT |-> 0, lastW |-> InitialWidth]
    /\ segs = <<>>
    /\ lineWidth = InitialWidth
    /\ captured = 1
    /\ pointerEvents = TRUE
    /\ now = 0
    /\ lastEvent = "down"
    /\ bound = 1
    /\ ink = 1

NextWidth == \E dist \in WidthDists, dt \in WidthDts : AddPoint(dist, dt)

SpecWidth == InitWidth /\ [][NextWidth]_vars

(* ------------------------ the canvas of the modal --------------------- *)
\* The strokes together with the life of the canvas: the modal is opened and
\* closed, its timer runs setupCanvas and clearCanvas, the window is
\* resized, the Clear button is pressed, and the form is submitted online.

\* _unbindCanvasEvents(): nothing happens while this.canvas is null;
\* otherwise the listeners the fields _on... name are removed
unbindCanvasEvents(hasCanvas, b) == IF hasCanvas THEN 0 ELSE b

\* the fields the life of the canvas writes
canvasState ==
    [isDrawing |-> isDrawing, pointList |-> pointList, stroke |-> stroke,
     ink |-> ink, bound |-> bound]

\* setupCanvas() with this.canvas set: the bitmap is sized anew, this._stroke
\* is reset, the old listeners are removed and one set is bound
setupCanvas(d) ==
    [d EXCEPT !.ink = 0, !.stroke = NoStroke,
              !.bound = unbindCanvasEvents(TRUE, d.bound) + 1]

\* clearCanvas that leaves this._stroke as it is
clearCanvas_KeepsStroke(hasCanvas, d) ==
    IF ~hasCanvas THEN d
    ELSE [d EXCEPT !.ink = 0, !.pointList = <<>>, !.isDrawing = FALSE]

\* clearCanvas(): skipped while the canvas is not initialised; otherwise the
\* bitmap, this.points, this.isDrawing and this._stroke are reset
clearCanvas(hasCanvas, d) ==
    IF ~hasCanvas THEN d
    ELSE [d EXCEPT !.ink = 0, !.pointList = <<>>, !.isDrawing = FALSE,
                   !.stroke = NoStroke]

\* the fields are written back
canvasWrite(d) ==
    /\ isDrawing' = d.isDrawing
    /\ pointList' = d.pointList
    /\ points' = Len(d.pointList)
    /\ stroke' = d.stroke
    /\ ink' = d.ink
    /\ bound' = d.bound

\* what the life of the canvas leaves alone
canvasFrame ==
    UNCHANGED << engineVars, deviceVars, revision, online, clock, storage,
                 saved, reqs, loads, segs, lineWidth, captured,
                 pointerEvents, now >>

\* the timer callback of openCreateModal: this.canvas is looked up, then
\* setupCanvas() and clearCanvas()
CanvasInit ==
    /\ initTimers > 0
    /\ initTimers' = initTimers - 1
    /\ canvas' = TRUE
    /\ canvasWrite(clearCanvas(TRUE, setupCanvas(canvasState)))
    /\ lastEvent' = "clear"
    /\ showNothing
    /\ UNCHANGED modalOpen
    /\ canvasFrame

\* the 'resize' listener bound with the stroke listeners: setupCanvas() and
\* clearCanvas() once more
CanvasResize ==
    /\ bound >= 1
    /\ canvas
    /\ canvasWrite(clearCanvas(TRUE, setupCanvas(canvasState)))
    /\ lastEvent' = "clear"
    /\ showNothing
    /\ UNCHANGED << modalOpen, initTimers, canvas >>
    /\ canvasFrame

\* the Clear button of the modal
CanvasClear ==
    /\ modalOpen
    /\ canvasWrite(clearCanvas(canvas, canvasState))
    /\ lastEvent' = IF canvas THEN "clear" ELSE lastEvent
    /\ showNothing
    /\ UNCHANGED << modalOpen, initTimers, canvas >>
    /\ canvasFrame

\* closeCreateModal() through the buttons of the modal: the listeners are
\* unbound, this.canvas and this.ctx are dropped, this.points is emptied;
\* this._stroke and the bitmap of the element stay
CanvasClose ==
    /\ modalOpen
    /\ modalOpen' = FALSE
    /\ bound' = unbindCanvasEvents(canvas, bound)
    /\ canvas' = FALSE
    /\ points' = 0
    /\ pointList' = <<>>
    /\ isDrawing' = FALSE
    /\ lastEvent' = "close"
    /\ showNothing
    /\ UNCHANGED << initTimers, stroke, ink >>
    /\ canvasFrame

\* where the events happen and the time between two of them
CanvasXs == {0, 50, 100}
CanvasDts == {20}
CanvasInputs == { <<"a">> }

\* the page is loaded and online, and the modal has not been opened
InitCanvas ==
    /\ EngineOff
    /\ DeviceOff
    /\ revision \in StrokeRevisions
    /\ online = TRUE
    /\ clock = 1
    /\ storage = [present |-> FALSE, items |-> <<>>]
    /\ saved = {}
    /\ reqs = <<>>
    /\ loads = <<>>
    /\ shown = ""
    /\ modalOpen = FALSE
    /\ initTimers = 0
    /\ canvas = FALSE
    /\ isDrawing = FALSE
    /\ points = 0
    /\ stroke = NoStroke
    /\ pointList = <<>>
    /\ segs = <<>>
    /\ lineWidth = 0
    /\ captured = NoPointer
    /\ pointerEvents \in BOOLEAN
    /\ now = 0
    /\ lastEvent = "none"
    /\ bound = 0
    /\ ink = 0

NextCanvas ==
    \/ OpenCreateModal
    \/ CanvasInit
    \/ CanvasResize
    \/ CanvasClear
    \/ CanvasClose
    \/ \E x \in CanvasXs : PointerDown(1, TRUE, x)
    \/ \E x \in CanvasXs, dt \in CanvasDts : PointerMove(1, x, dt)
    \/ PointerUp(1)
    \/ PointerCancel(1)
    \/ \E x \in CanvasXs : FallbackStart(x)
    \/ \E x \in CanvasXs, dt \in CanvasDts : FallbackMove(x, dt)
    \/ FallbackEnd
    \/ \E input \in CanvasInputs : SaveSignature(input)

SpecCanvas == InitCanvas /\ [][NextCanvas]_vars

(* -------------------------- the device id ----------------------------- *)
\* what Math.random() makes of 'mobile_' + ...: any of a few ids
RandomIds == 1..MaxIds

\* getOrCreateDeviceId that makes a new id on every call
getOrCreateDeviceId_AlwaysNew(store, rnd) == rnd

\* the value getOrCreateDeviceId() returns when the key holds store and
\* Math.random() gives rnd
getOrCreateDeviceId(store, rnd) == IF store = NoDeviceId THEN rnd ELSE store

\* the page is loaded (for the first time or again): the constructor sets
\* this.deviceId, and setItem runs only when the key held nothing
Construct(rnd) ==
    /\ deviceId' = getOrCreateDeviceId(devStore, rnd)
    /\ devStore' = IF devStore = NoDeviceId THEN rnd ELSE devStore
    /\ showNothing
    /\ UNCHANGED << engineVars, strokeVars, revision, online, clock, storage,
                    saved, reqs, loads, uiVars, stamps >>

\* saveSignature from the record it builds to saveToLocalStorage: the record
\* carries device_id: this.deviceId
StampSignature(name) ==
    /\ deviceId # NoDeviceId
    /\ Len(Outbox) < MaxStore
    /\ storage' = saveToLocalStorage(storage, signatureData(name))
    /\ saved' = saved \cup { signatureData(name) }
    /\ stamps' = stamps \cup { deviceId }
    /\ showNothing
    /\ UNCHANGED << engineVars, strokeVars, revision, online, clock, reqs,
                    loads, uiVars, devStore, deviceId >>

\* a device whose storage holds nothing, before the page is loaded
InitDevice == Init /\ revision = "fixed" /\ online

NextDevice ==
    \/ Tick
    \/ \E rnd \in RandomIds : Construct(rnd)
    \/ \E name \in StoreNames : StampSignature(name)

SpecDevice == InitDevice /\ [][NextDevice]_vars

(* ------------------------------ claims -------------------------------- *)
\* the records the server has confirmed: those of the body of a request that
\* got a 2xx reply with status 'success'
Confirmed ==
    UNION { Range(reqs[i].body) : i \in { j \in 1..Len(reqs) :
                                            reqs[j].state = "success" } }

\* the last request issued
LastReq == reqs[Len(reqs)]

\* C1: a record leaves the outbox only in a step after which the server has
\* confirmed that very record (a success reply to its create request or to a
\* bulk sync request whose body held it); a record enqueued while a bulk sync
\* is in flight is still in the outbox after that sync succeeds.
C1_LeavesOnlyWhenConfirmed ==
    [][ \A e \in Range(Outbox) :
            e \notin Range(Outbox') => e \in Confirmed' ]_vars

\* C2: a bulk sync started online with a non-empty outbox carries the whole
\* outbox in order; a success reply empties the outbox and any other reply
\* (network error, non-2xx, non-success status) leaves the outbox as it was.
C2_SyncAllOrNothing ==
    [][ /\ (online /\ Outbox # <<>> /\ ManualSync) =>
                /\ Len(reqs') = Len(reqs) + 1
                /\ LastReq' = [kind |-> "sync", body |-> Outbox,
                               state |-> "inflight"]
        /\ \A i \in 1..MaxReq, r \in Replies :
              SyncReply(i, r) =>
                  IF Accepted(r) THEN Outbox' = <<>>
                  ELSE Outbox' = Outbox ]_vars

\* C3: the create reply removes the record and makes uploadSignature return
\* true (saveSignature goes on to reload the library) iff the reply is 2xx
\* with status 'success'; otherwise uploadSignature returns false
\* (saveSignature shows the saved-locally warning) and the outbox is as it was.
C3_UploadRemovesIffAccepted ==
    [][ \A i \in 1..MaxReq, r \in Replies :
            CreateReply(i, r) =>
                IF Accepted(r)
                THEN /\ reqs[i].body[1] \notin Range(Outbox')
                     /\ Len(loads') = Len(loads) + 1
                ELSE /\ Outbox' = Outbox
                     /\ loads' = loads
                     /\ shown' = "Signature saved locally" ]_vars

\* C4: no two requests in flight (one of them a bulk sync) carry the same
\* pending record, and no record is carried by two such requests that both
\* succeeded.
C4_NoDuplicateUploads ==
    \A i, j \in 1..Len(reqs) :
        ( /\ i < j
          /\ (reqs[i].kind = "sync" \/ reqs[j].kind = "sync")
          /\ \/ reqs[i].state = "inflight" /\ reqs[j].state = "inflight"
             \/ reqs[i].state = "success" /\ reqs[j].state = "success" )
        => Range(reqs[i].body) \cap Range(reqs[j].body) = {}

\* C5: when saveToLocalStorage has returned the record is the last entry of
\* the persisted outbox, and a restart at any later point before the record
\* is confirmed still finds it in the list loadLocalSignatures returns.
C5_OutboxDurable ==
    [][ /\ \A input \in NameInputs :
              (SaveSignature(input) /\ storage' # storage) =>
                  /\ storage'.present
                  /\ Outbox'[Len(Outbox')] = signatureData(Trim(input))
        /\ Restart =>
              \A e \in saved \ Confirmed :
                  e \in Range(loadLocalSignatures(storage')) ]_vars

\* C6: in the step in which the client becomes Online (the 'online' event, or
\* startup with navigator.onLine true) a bulk sync carrying the outbox is
\* started when the outbox is non-empty, and no request is issued when it is
\* empty.
C6_OnlineTriggersFlush ==
    [][ (GoOnline \/ (online /\ Restart)) =>
            IF Outbox # <<>>
            THEN /\ Len(reqs') = Len(reqs) + 1
                 /\ LastReq' = [kind |-> "sync", body |-> Outbox,
                                state |-> "inflight"]
            ELSE Len(reqs') = Len(reqs) ]_vars

\* a state right after such a step: the newest request is a bulk sync in
\* flight that carries the whole outbox
C6_Witness ==
    /\ online
    /\ Outbox # <<>>
    /\ Len(reqs) > 0
    /\ LastReq = [kind |-> "sync", body |-> Outbox, state |-> "inflight"]
    /\ shown = ""

\* a record whose create request failed
FailedUpload ==
    UNION { Range(reqs[i].body) : i \in { j \in 1..Len(reqs) :
                reqs[j].kind = "create" /\ reqs[j].state = "failed" } }

\* C7: a record that stayed pending after a failed upload never disappears
\* without delivery: once it is out of the outbox the server has confirmed it.
C7_FailedUploadDelivered ==
    \A e \in FailedUpload : e \notin Range(Outbox) => e \in Confirmed

\* C8 as stated: every syncSignatures call made while offline issues no
\* request and ends with 'Cannot sync while offline', whatever the outbox
\* holds.
C8_OfflineAlwaysCannotSync ==
    [][ (~online /\ ManualSync) =>
            /\ reqs' = reqs
            /\ loads' = loads
            /\ shown' = "Cannot sync while offline" ]_vars

\* C8 amended: every syncSignatures call made while offline issues no
\* request; it ends with 'Cannot sync while offline' when the outbox is not
\* empty and with 'No signatures to sync' when it is empty.
C8_OfflineShortCircuits ==
    [][ (~online /\ ManualSync) =>
            /\ reqs' = reqs
            /\ loads' = loads
            /\ storage' = storage
            /\ shown' = IF Outbox = <<>> THEN "No signatures to sync"
                        ELSE "Cannot sync while offline" ]_vars

C8_Witness ==
    /\ ~online
    /\ Outbox # <<>>
    /\ shown = "Cannot sync while offline"

\* C9: syncSignatures with an empty outbox reports 'No signatures to sync',
\* issues no request and leaves the outbox empty, every time it is called.
C9_EmptySyncIsNoOp ==
    [][ (Outbox = <<>> /\ ManualSync) =>
            /\ shown' = "No signatures to sync"
            /\ reqs' = reqs
            /\ loads' = loads
            /\ storage' = storage ]_vars

C9_Witness ==
    /\ Outbox = <<>>
    /\ shown = "No signatures to sync"

\* C10: saveSignature with an empty trimmed name or with fewer than 10
\* points adds nothing to the outbox and issues no request: a step that
\* changes the outbox or the requests is no such call.
C10_ValidationBeforeEffect ==
    [][ << storage, saved, reqs, loads >>' # << storage, saved, reqs, loads >>
        => \A input \in NameInputs :
              (Trim(input) = <<>> \/ points < MinPoints)
              => ~SaveSignature(input) ]_vars

\* a save was rejected one point short of the minimum
C10_Witness ==
    /\ shown = "Please draw your signature"
    /\ points = MinPoints - 1
    /\ modalOpen

\* a is b with some entries left out, the others in the order of b
RECURSIVE IsSubSeq(_, _)
IsSubSeq(a, b) ==
    IF a = <<>> THEN TRUE
    ELSE IF b = <<>> THEN FALSE
    ELSE IF Head(a) = Head(b) THEN IsSubSeq(Tail(a), Tail(b))
    ELSE IsSubSeq(a, Tail(b))

\* C11: loadLocalSignatures gives the entries in the order they were
\* enqueued: an enqueue puts the new entry behind all the others, which keep
\* their places, and a removal leaves exactly the entries with another
\* local_id, in the order they had.
C11_OutboxKeepsOrder ==
    [][ /\ \A name \in StoreNames :
              StoreEnqueue(name)
              => /\ Len(loadLocalSignatures(storage')) = Len(Outbox) + 1
                 /\ SubSeq(loadLocalSignatures(storage'), 1, Len(Outbox))
                        = Outbox
                 /\ loadLocalSignatures(storage')[Len(Outbox) + 1]
                        = signatureData(name)
        /\ \A lid \in StoreIds :
              StoreRemove(lid)
              => LET after == loadLocalSignatures(storage') IN
                 /\ IsSubSeq(after, Outbox)
                 /\ \A i \in 1..Len(after) : after[i].local_id # lid
                 /\ Len(after) = Cardinality({ i \in 1..Len(Outbox) :
                                                 Outbox[i].local_id # lid })
      ]_vars

\* an outbox of two different entries after an earlier entry was removed
C11_Witness ==
    /\ Len(Outbox) >= 2
    /\ Outbox[1] # Outbox[2]
    /\ \E s \in saved : s \notin Range(Outbox) /\ s.local_id < Outbox[1].local_id

\* C12: removeFromLocalStorage with a local_id no entry has leaves the list
\* of entries as it was, and removing the same local_id a second time
\* changes nothing more.
C12_RemoveIdempotent ==
    [][ \A lid \in StoreIds :
            StoreRemove(lid)
            => /\ (\A i \in 1..Len(Outbox) : Outbox[i].local_id # lid)
                    => loadLocalSignatures(storage') = Outbox
               /\ removeFromLocalStorage(storage', lid) = storage' ]_vars

\* the key holds '[]' although nothing was ever enqueued: a removal has run
\* on an outbox that had no entry at all
C12_Witness ==
    /\ storage.present
    /\ Outbox = <<>>
    /\ saved = {}

\* the (member, slot) pairs of a table that hold sid
HoldersOf(table, sid) ==
    { p \in (DOMAIN table) \X Slots : table[p[1]][p[2]] = sid }

ServerAnswer == [net |-> TRUE, ok |-> TRUE, body |-> "json"]

\* C14: an assign of a signature that another (member, slot) pair holds is
\* rejected and leaves the table as it was; when the rejection arrives the
\* client shows the server's message and issues a list request, and the
\* tables are not changed by that step either.
C14_RejectedAssign ==
    [][ \A i \in 1..MaxEng :
          /\ ( /\ i \in 1..Len(ereqs)
               /\ ereqs[i].op = "assign"
               /\ ereqs[i].sid # Null
               /\ ereqs[i].member \in Members
               /\ ereqs[i].loc \in Slots
               /\ HeldElsewhere(srvTable, ereqs[i].member, ereqs[i].loc,
                                ereqs[i].sid)
               /\ Serve(i) )
             => /\ srvTable' = srvTable
                /\ ereqs'[i].result = "signature already used"
          /\ ( /\ i \in 1..Len(ereqs)
               /\ ereqs[i].from = "assign"
               /\ ereqs[i].result = "signature already used"
               /\ AssignReply(i, ServerAnswer) )
             => /\ shown' = "rejected: already used"
                /\ Len(lists') = Len(lists) + 1
                /\ ~lists'[Len(lists')].served
                /\ srvTable' = srvTable
                /\ assignmentsByMember' = assignmentsByMember
                /\ assignments' = assignments ]_vars

\* the rejection of an assign of a held signature has been shown and the
\* list request that follows it is in flight
C14_Witness ==
    /\ shown = "rejected: already used"
    /\ lists # <<>>
    /\ \E sid \in SigIds : HoldersOf(srvTable, sid) # {}

\* the ids the options of the b-th box show as disabled ('Already used')
DisabledIn(b) ==
    { sid \in signatures : isDisabled(RenderLocations[b], sid) }

\* the ids held by the pairs of the loaded table other than the b-th slot of
\* the selected member
HeldByOthers(b) ==
    { assignmentsByMember[p[1]][p[2]] :
        p \in ((DOMAIN assignmentsByMember) \X Slots)
                 \ { << renderedKey, SlotList[b] >> } } \ {Null}

\* C15: in the box of each slot of the selected member, the options shown as
\* disabled are exactly the signatures held by another (member, slot) pair of
\* the loaded table: another slot of the same member or any slot of another
\* member.
C15_DisabledAreUsedElsewhere ==
    \A b \in 1..Len(SlotList) : DisabledIn(b) = HeldByOthers(b)

\* the members whose auto-assign request of the bulk run is in flight
BulkInFlight ==
    [ k \in { j \in 1..Len(ereqs) : ereqs[j].from = "bulk" }
        |-> ereqs[k].member ]

BulkMembersInFlight == { BulkInFlight[k] : k \in DOMAIN BulkInFlight }

\* C16: a bulkAutoAssign run has at most one auto-assign request in flight,
\* it is the request of the member the loop has reached, the loop goes
\* through the member list in order, and the request of a member is sent in
\* the step that handles the reply for the member before it.
C16_BulkSequential ==
    [][ /\ Cardinality(DOMAIN BulkInFlight') <= 1
        /\ bulk'.active =>
              /\ BulkMembersInFlight' = { MemberList[bulk'.idx] }
              /\ \/ bulk' = bulk
                 \/ ~bulk.active /\ bulk'.idx = 1
                 \/ /\ bulk.active
                    /\ bulk'.idx = bulk.idx + 1
                    /\ BulkMembersInFlight = { MemberList[bulk.idx] }
                    /\ \E i \in 1..MaxEng, r \in EngineReplies : BulkReply(i, r)
        /\ ~bulk'.active => BulkMembersInFlight' = {} ]_vars

\* the run has reached the second member: her request is in flight and the
\* reply for the first member has been counted
C16_Witness ==
    /\ bulk.active
    /\ bulk.idx = 2
    /\ BulkMembersInFlight = { MemberList[2] }
    /\ bulk.successCount + Len(bulk.failures) = 1

\* C17: a bulkAutoAssign run that has ended has sent one request for every
\* member, whatever the outcome for the members before, and its successes
\* and recorded failures add up to the number of members.
C17_BulkContinues ==
    bulk.ended # "no"
    => /\ bulk.idx = Len(MemberList)
       /\ bulk.successCount + Len(bulk.failures) = Len(MemberList)

\* C18: an auto-assign for a member with more empty slots than there are
\* unused signatures changes no slot: the server turns it down and leaves
\* its table as it was, and when the answer arrives autoAssign shows the
\* server's message and leaves the loaded table as it was.
C18_ShortfallIsAtomic ==
    [][ \A i \in 1..MaxEng :
          /\ ( /\ i \in 1..Len(ereqs)
               /\ ereqs[i].op = "auto"
               /\ ereqs[i].member \in Members
               /\ Cardinality(srvUnused(srvSigs, srvTable))
                     < Cardinality(srvEmptySlots(srvTable, ereqs[i].member))
               /\ Serve(i) )
             => /\ srvTable' = srvTable
                /\ ereqs'[i].result = "not enough unused signatures"
          /\ ( /\ i \in 1..Len(ereqs)
               /\ ereqs[i].from = "auto"
               /\ ereqs[i].result = "not enough unused signatures"
               /\ AutoReply(i, ServerAnswer) )
             => /\ shown' = "warning: not enough"
                /\ srvTable' = srvTable
                /\ assignmentsByMember' = assignmentsByMember
                /\ assignments' = assignments
                /\ signatures' = signatures ]_vars

\* the shortfall has been reported for a member whose loaded assignments
\* hold a signature, with two signatures unused and three slots empty
C18_Witness ==
    /\ shown = "warning: not enough"
    /\ \E s \in Slots : AssignmentAt(s) \in SigIds
    /\ Cardinality(srvUnused(srvSigs, srvTable)) = 2
    /\ \E m \in Members : Cardinality(srvEmptySlots(srvTable, m)) = 3

\* the requests of the resetAssignments run that are in flight
ResetInFlight == { i \in 1..Len(ereqs) : ereqs[i].from = "reset" }

\* C19: a confirmed resetAssignments run for the selected member M sends,
\* one after another, one assign request with signature_id null for each
\* slot of M, in the order of the slot list; a request the server handles
\* clears that slot of M and no other, a run that has ended without a
\* failure has gone through all the slots, and the step that ends a run
\* leaves the server's table alone, so cleared slots stay cleared.
C19_ResetClearsEachSlot ==
    [][ /\ Cardinality(ResetInFlight') <= 1
        /\ \A i \in ResetInFlight' :
              /\ reset'.active
              /\ ereqs'[i].op = "assign"
              /\ ereqs'[i].sid = Null
              /\ ereqs'[i].loc = SlotList[reset'.idx]
              /\ ereqs'[i].member = reset'.member
        /\ reset'.ended = "done" => reset'.idx = Len(SlotList)
        /\ \A i \in ResetInFlight :
              /\ Serve(i)
                 => srvTable' = [srvTable EXCEPT
                                    ![reset.member][ereqs[i].loc] = Null]
              /\ (\E r \in EngineReplies : ResetReply(i, r))
                 => srvTable' = srvTable ]_vars

\* the b-th slot of the loaded assignments holds an id that another slot of
\* the same member holds too
SharesId(b) ==
    /\ SlotList[b] \in DOMAIN assignments
    /\ assignments[SlotList[b]] # Null
    /\ \E s \in DOMAIN assignments \ {SlotList[b]} :
          assignments[s] = assignments[SlotList[b]]

\* C20: the box of a slot carries the duplicate warning exactly when the id
\* the slot holds is also held by another slot of the member, and the member
\* is flagged exactly when some slot does; with all ids distinct there is no
\* warning.
C20_DuplicateCheck ==
    /\ \A b \in 1..Len(SlotList) :
          isDuplicate(RenderLocations[b]) <=> SharesId(b)
    /\ alertDuplicates <=> \E b \in 1..Len(SlotList) : SharesId(b)

\* a step that handles the reply r to the i-th request of the engine
EngineReply(i, r) ==
    \/ AssignReply(i, r)
    \/ AutoReply(i, r)
    \/ DeleteReply(i, r)
    \/ ResetReply(i, r)
    \/ BulkReply(i, r)

\* the operation the i-th request belongs to ends in this step: a single
\* call ends with its reply, a run ends when its loop is left
EndsOperation(i) ==
    \/ ereqs[i].from \in {"assign", "auto", "delete"}
    \/ ereqs[i].from = "reset" /\ ~reset'.active
    \/ ereqs[i].from = "bulk" /\ ~bulk'.active

\* C21: the step that ends an assign, auto-assign, delete, reset or bulk
\* operation whose request the server has handled, accepted or rejected,
\* issues a list request, and the step that handles the server's answer to a
\* list request replaces the signatures and the table with that answer.
C21_ReloadAfterMutation ==
    [][ /\ \A i \in 1..MaxEng, r \in EngineReplies :
              ( /\ i \in 1..Len(ereqs)
                /\ ereqs[i].served
                /\ EngineReply(i, r)
                /\ EndsOperation(i) )
              => /\ Len(lists') = Len(lists) + 1
                 /\ ~lists'[Len(lists')].served
        /\ \A j \in 1..MaxLists :
              ( j \in 1..Len(lists) /\ ListReply(j, ServerAnswer) )
              => /\ signatures' = lists[j].sigs
                 /\ assignmentsByMember' = lists[j].table ]_vars

\* the reply r to the request q is a failing outcome: a network error, a
\* non-2xx reply, an unreadable body or a status other than 'success'
FailingOutcome(q, r) ==
    ~(r.net /\ r.ok /\ replyStatus(q, r) = "success")

\* C22: the step that handles a failing outcome of an assign, auto-assign,
\* reset or delete request shows a message through showAlert.
C22_FailureIsShown ==
    [][ \A i \in 1..MaxEng, r \in EngineReplies :
            ( /\ i \in 1..Len(ereqs)
              /\ ereqs[i].from \in {"assign", "auto", "reset", "delete"}
              /\ FailingOutcome(ereqs[i], r)
              /\ EngineReply(i, r) )
            => shown' # "" ]_vars

\* C23: a deleteSignature the server has accepted issues a list request, and
\* once that refresh has completed the deleted signature is neither in the
\* client's signature list nor held by a (member, slot) pair of its table;
\* a deleteSignature the user declines issues no request and changes no
\* state of the client or of the server.
C23_DeleteCascades ==
    [][ /\ \A i \in 1..MaxEng :
              ( /\ i \in 1..Len(ereqs)
                /\ ereqs[i].from = "delete"
                /\ ereqs[i].result = "success"
                /\ DeleteReply(i, ServerAnswer) )
              => /\ Len(lists') = Len(lists) + 1
                 /\ lists'[Len(lists')].then = "Signature deleted"
                 /\ lists'[Len(lists')].arg = ereqs[i].sid
                 /\ ~lists'[Len(lists')].served
        /\ \A j \in 1..MaxLists, r \in EngineReplies :
              ( /\ j \in 1..Len(lists)
                /\ lists[j].then = "Signature deleted"
                /\ ListReply(j, r) )
              => /\ lists[j].arg \in SigIds
                 /\ lists[j].arg \notin signatures'
                 /\ HoldersOf(assignmentsByMember', lists[j].arg) = {}
                 /\ \A s \in DOMAIN assignments' :
                       assignments'[s] # lists[j].arg
        /\ \A sid \in SigIds :
              DeleteSignature(sid, FALSE)
              => UNCHANGED << ereqs, lists, srvSigs, srvTable, signatures,
                              assignmentsByMember, assignments,
                              currentMemberKey >> ]_vars

\* signature 1 was held by the first slot of member A next to 2 and 3; it
\* has been deleted and the refresh has completed: the slot is empty again
C23_Witness ==
    /\ shown = "Signature deleted"
    /\ signatures = SigIds \ {1}
    /\ "A" \in DOMAIN assignmentsByMember
    /\ assignmentsByMember["A"] =
          [s \in Slots |-> CASE s = SlotList[1] -> Null
                             [] s = SlotList[2] -> 2
                             [] OTHER -> 3]

\* a move event at x, dt after the event before it; an event that ends a
\* stroke; an event that starts one
MoveEvent(x, dt) ==
    \/ \E id \in PointerIds : PointerMove(id, x, dt)
    \/ FallbackMove(x, dt)

EndEvent ==
    \/ \E id \in PointerIds : PointerUp(id) \/ PointerCancel(id)
    \/ FallbackEnd

StartEvent ==
    \/ \E id \in PointerIds, x \in EventXs : PointerDown(id, TRUE, x)
    \/ \E x \in EventXs : FallbackStart(x)

\* C24: pointer up, pointer cancel, touch end and mouse up end the stroke;
\* from then on, and until an event starts a stroke, a move event appends no
\* point to the stroke or to the point list, draws no segment and leaves the
\* line width alone.
C24_NoPointsAfterEnd ==
    [][ /\ (isDrawing /\ EndEvent) => ~isDrawing'
        /\ (~isDrawing /\ isDrawing') => StartEvent
        /\ \A x \in EventXs, dt \in EventDts :
              (~isDrawing /\ MoveEvent(x, dt)) => UNCHANGED inkVars ]_vars

\* a stroke with a drawn segment has ended and the move event after it has
\* been ignored
C24_Witness ==
    /\ ~isDrawing
    /\ lastEvent = "move"
    /\ points > 1
    /\ segs # <<>>

\* C25: while a stroke is active, a pointerdown of a mouse button other than
\* the main one or of a pointer other than the capturing one leaves the
\* stroke as it is, and so do the move, up and cancel events of a pointer
\* other than the capturing one.
C25_ExclusiveCapture ==
    [][ \A id \in PointerIds :
          (isDrawing /\ pointerEvents)
          => /\ \A x \in EventXs :
                   PointerDown(id, FALSE, x) => UNCHANGED inkVars
             /\ id # captured
                => /\ \A x \in EventXs :
                         PointerDown(id, TRUE, x) => UNCHANGED inkVars
                   /\ \A x \in EventXs, dt \in EventDts :
                         PointerMove(id, x, dt) => UNCHANGED inkVars
                   /\ (PointerUp(id) \/ PointerCancel(id))
                         => UNCHANGED inkVars ]_vars

\* C26: a move event less than the jitter threshold away from the last
\* accepted raw point has no effect: the raw point, the last width, the last
\* timestamp, the smoothed points, the point list and the drawing stay as
\* they are, so the next move is measured from the same raw point.
C26_JitterDiscarded ==
    [][ \A x \in EventXs, dt \in EventDts :
            ( /\ isDrawing
              /\ stroke.raw # <<>>
              /\ Abs(x - stroke.raw[1].x) < JitterThreshold
              /\ MoveEvent(x, dt) )
            => UNCHANGED inkVars ]_vars

\* after an accepted move, moves below the threshold have been discarded for
\* 50 ms: the raw point is still the one of the accepted move
C26_Witness ==
    /\ isDrawing
    /\ lastEvent = "move"
    /\ points > 1
    /\ stroke.raw # <<>>
    /\ now - stroke.raw[1].t >= 50

\* a width lies within [minW, maxW] of the revision
InRange(rev, w) == minW(rev) <= w /\ w <= maxW(rev)

IsPrefix(s, u) == Len(s) <= Len(u) /\ SubSeq(u, 1, Len(s)) = s

\* C28: each segment drawn for a stroke starts at the point where the
\* segment before it ended, the first one starts at the first point of the
\* stroke, and as long as no new stroke starts the smoothed points and the
\* segments drawn are only added to, never changed.
C28_SegmentsJoin ==
    [][ /\ \A k \in 1..(Len(segs') - 1) : segs'[k].to = segs'[k + 1].from
        /\ segs' # <<>>
           => /\ segs'[1].from.x = pointList'[1]
              /\ ~isDrawing' \/ segs'[1].from = stroke'.pts[1]
        /\ lastEvent' # "down"
           => /\ IsPrefix(segs, segs')
              /\ isDrawing' => IsPrefix(stroke.pts, stroke'.pts) ]_vars

\* a stroke in progress has drawn five segments or more and has moved
C28_Witness ==
    /\ isDrawing
    /\ Len(segs) >= 5
    /\ segs[1].from.x # segs[Len(segs)].to.x

\* C29: loading the page writes a new id to storage only when none is
\* stored; otherwise storage stays as it is and this.deviceId is the stored
\* id, whatever Math.random() gives; an id once stored never changes, and
\* all the records saveSignature has built carry one and the same device_id.
C29_DeviceIdRetained ==
    [][ /\ \A rnd \in RandomIds :
              Construct(rnd)
              => /\ devStore = NoDeviceId
                    => devStore' = rnd /\ deviceId' = rnd
                 /\ devStore # NoDeviceId
                    => devStore' = devStore /\ deviceId' = devStore
        /\ devStore # NoDeviceId => devStore' = devStore
        /\ Cardinality(stamps') <= 1 ]_vars

\* two records have been saved and both carry the id that is stored
C29_Witness ==
    /\ devStore # NoDeviceId
    /\ deviceId = devStore
    /\ stamps = { devStore }
    /\ Len(Outbox) >= 2

\* C30: saveSignature writes the new record to the outbox before it issues
\* any request for it: a save that passes validation leaves the record in
\* the outbox, the create request it issues carries that record, and offline
\* the outbox grows by exactly that one entry and no request is issued; and
\* after every step each record saved so far that the server has not
\* confirmed is in the outbox.
C30_InOutboxUntilConfirmed ==
    [][ /\ \A input \in NameInputs :
              (Trim(input) # <<>> /\ points >= MinPoints
                 /\ SaveSignature(input))
              => /\ Outbox' = Append(Outbox, signatureData(Trim(input)))
                 /\ IF online
                    THEN /\ Len(reqs') = Len(reqs) + 1
                         /\ LastReq'.body = << signatureData(Trim(input)) >>
                    ELSE reqs' = reqs
        /\ \A e \in saved' \ Confirmed' : e \in Range(Outbox') ]_vars

\* the moves the step is computed for when it is looked at alone: lengths
\* from the jitter threshold up, times from 1 ms, the three curvature hints
StepDists == {35, 50, 100, 400}
StepDts == {1, 10, 40}
StepBoosts == {100, 135, 165}

\* the step of every move lies within [minStep, baseStep], and a move that
\* is at least as fast with at least as large a curvature hint has no
\* larger step
StepBounded ==
    \A rev \in StrokeRevisions, d1 \in StepDists, t1 \in StepDts,
       b1 \in StepBoosts :
        /\ stepSize(rev, d1, t1, b1) >= minStep(rev)
        /\ stepSize(rev, d1, t1, b1) <= baseStep(rev)
        /\ \A d2 \in StepDists, t2 \in StepDts, b2 \in StepBoosts :
              (d2 * t1 >= d1 * t2 /\ b2 >= b1)
              => stepSize(rev, d2, t2, b2) <= stepSize(rev, d1, t1, b1)

C32_OneSlotSet ==
    /\ Len(RenderLocations) = Len(SlotList)
    /\ Range(RenderLocations) = Slots
    /\ DOMAIN assignments # {} => Range(RenderLocations) = DOMAIN assignments

\* C33: at every event boundary, while isDrawing is true the canvas and its
\* context are set, the last raw point is set and the smoothed list holds at
\* least the four seed points, so every sub-point of a move draws a segment;
\* and while isDrawing is false after a stroke end or a clear that was not
\* skipped, there is no raw point and the smoothed list is empty.
C33_StrokeState ==
    /\ isDrawing => /\ canvas
                    /\ stroke.raw # <<>>
                    /\ Len(stroke.pts) >= 4
                    /\ Len(segs) = Len(stroke.pts) - 4
    /\ (~isDrawing /\ lastEvent \in {"up", "cancel", "clear"})
       => stroke.raw = <<>> /\ stroke.pts = <<>>

\* a stroke has drawn segments, and the canvas has been cleared since
C33_Witness ==
    /\ ~isDrawing
    /\ lastEvent = "clear"
    /\ segs # <<>>
    /\ stroke = NoStroke
    /\ ink = 0
    /\ modalOpen

\* the loaded table of the selected member holds a signature at the key loc
HoldsSignature(loc) ==
    /\ loc \in DOMAIN assignments
    /\ assignments[loc] # Null

\* C34: once a table is loaded and rendered, the badge of every box drawn
\* reads 'Assigned' exactly when the table of the selected member holds a
\* signature id at the key of the box, and its 'No Signature' option is the
\* selected one exactly when it holds none; also for a defaulted table.
C34_BadgeMatchesTable ==
    assignments # NoSlots
    => \A b \in 1..Len(RenderLocations) :
          /\ isAssigned(RenderLocations[b])
                <=> HoldsSignature(RenderLocations[b])
          /\ isSelected(RenderLocations[b], Null)
                <=> ~HoldsSignature(RenderLocations[b])

\* C35: every assign request of a resetAssignments run carries the member
\* key that was selected when the run was confirmed, also when another
\* member is selected while the run waits for a reply; and the server,
\* handling a request of the run, changes no slot of another member.
C35_ResetKeepsMember ==
    [][ /\ \A i \in ResetInFlight' : ereqs'[i].member = reset'.member
        /\ \A i \in ResetInFlight :
              Serve(i) => \A m \in Members \ {reset.member} :
                              srvTable'[m] = srvTable[m] ]_vars

\* C36: from closeCreateModal until the next openCreateModal the canvas and
\* the context are null, the point list is empty and no stroke listeners are
\* bound, also when the modal was closed before its initialisation timer
\* fired; and never is more than one set of stroke listeners bound.
C36_ClosedModalIsInert ==
    /\ ~modalOpen => /\ ~canvas
                     /\ pointList = <<>>
                     /\ points = 0
                     /\ bound = 0
    /\ bound <= 1

\* C37: with several list requests in flight, the reply to a request that
\* is older than one already answered, whether it succeeds or fails, leaves
\* the signatures and the tables of the client as the newer reply set them;
\* so once all have settled the client holds the answer to the request
\* issued last.
C37_LatestListWins ==
    [][ \A i \in 1..MaxLists, r \in EngineReplies :
          (i <= Len(lists) /\ lists[i].stale /\ ListReply(i, r))
          => UNCHANGED << signatures, assignmentsByMember, assignments >>
      ]_vars

\* C38: no two entries of the outbox have the same local_id, so the
\* removal after a confirmed upload takes exactly one entry out of the
\* outbox, the confirmed one.
C38_UniqueLocalIds ==
    [][ /\ \A j, k \in 1..Len(Outbox') :
              j # k => Outbox'[j].local_id # Outbox'[k].local_id
        /\ \A i \in 1..MaxReq, r \in Replies :
              (i \in InFlight /\ reqs[i].kind = "create" /\ Accepted(r)
                 /\ reqs[i].body[1] \in Range(Outbox) /\ CreateReply(i, r))
              => /\ Len(Outbox') = Len(Outbox) - 1
                 /\ reqs[i].body[1] \notin Range(Outbox') ]_vars

\* C39: the number saveSignature compares with the minimum is the length of
\* this.points, which holds the points of the stroke started last only: a
\* stroke start makes the list the one start point and leaves the ink of the
\* earlier strokes on the canvas, an accepted move appends its n sub-points,
\* and clearCanvas and closeCreateModal empty the list.
C39_LastStrokeCounts ==
    [][ /\ points' = Len(pointList')
        /\ \A x \in CanvasXs :
              (canvas /\ (PointerDown(1, TRUE, x) \/ FallbackStart(x)))
              => /\ pointList' = << x >>
                 /\ ink' >= ink
                 /\ ink' >= 1
        /\ \A x \in CanvasXs, dt \in CanvasDts :
              (/\ isDrawing
               /\ Abs(x - stroke.raw[1].x) >= JitterThreshold
               /\ MoveEvent(x, dt))
              => /\ IsPrefix(pointList, pointList')
                 /\ Len(pointList') = Len(pointList)
                       + subPoints(revision, Abs(x - stroke.raw[1].x),
                                   Max(1, now' - stroke.raw[1].t),
                                   turnBoost(pointList, x))
                 /\ ink' = ink
        /\ (canvas /\ CanvasClear) => pointList' = <<>> /\ ink' = 0
        /\ CanvasClose => pointList' = <<>>
        /\ \A input \in CanvasInputs :
              SaveSignature(input)
              => (shown' = "Please draw your signature"
                    <=> Len(pointList) < MinPoints) ]_vars

\* a stroke of ten points has been saved, and then a save was refused
\* after a second, shorter stroke on the same canvas
C39_Witness ==
    /\ saved # {}
    /\ ink = MaxInk
    /\ points < MinPoints
    /\ points >= 1
    /\ shown = "Please draw your signature"

====
